---------------------------- MODULE Spec2Model ----------------------------
(***************************************************************************)
(* A model of the contributor-risk engine of mcp-oss-metrics (src/app.py,  *)
(* src/mcp_server.py): identity classification, the activity aggregator,   *)
(* trend detection, concentration scoring and recommendation synthesis.    *)
(*                                                                         *)
(* Text is modelled as a sequence of one-character strings so that the     *)
(* substring, suffix and lower-casing tests of the code are computed, not  *)
(* assumed.  Fractions (percentages, the risk score) are exact rationals   *)
(* [num, den]; the float expressions of the code agree with them on every  *)
(* value the model reaches.  Timestamps are whole days before "now".       *)
(***************************************************************************)
EXTENDS Integers, Sequences, FiniteSets, TLC

(***************************************************************************)
(* Text helpers: str.lower(), "x in s", s.endswith(x), s.split("@")[-1].   *)
(***************************************************************************)
Upper == <<"A","B","C","D","E","F","G","H","I","J","K","L","M","N","O","P","Q","R","S","T","U","V","W","X","Y","Z">>

LowerChars == <<"a","b","c","d","e","f","g","h","i","j","k","l","m","n","o","p","q","r","s","t","u","v","w","x","y","z">>

Lower(c) ==
    IF \E i \in 1..Len(Upper) : Upper[i] = c
    THEN LowerChars[CHOOSE i \in 1..Len(Upper) : Upper[i] = c]
    ELSE c

LowerStr(s) == [i \in 1..Len(s) |-> Lower(s[i])]

Contains(s, sub) ==
    \E i \in 0..(Len(s) - Len(sub)) : SubSeq(s, i + 1, i + Len(sub)) = sub

EndsWith(s, suf) ==
    /\ Len(s) >= Len(suf)
    /\ SubSeq(s, Len(s) - Len(suf) + 1, Len(s)) = suf

HasAt(s) == \E i \in 1..Len(s) : s[i] = "@"

AfterLastAt(s) ==
    LET k == CHOOSE i \in 1..Len(s) :
                 /\ s[i] = "@"
                 /\ \A j \in (i + 1)..Len(s) : s[j] # "@"
    IN  SubSeq(s, k + 1, Len(s))

(***************************************************************************)
(* ProjectRiskAnalyzer.__init__: the curated domain lists.                 *)
(***************************************************************************)

company_domains ==
    { <<"m","i","c","r","o","s","o","f","t",".","c","o","m">>, <<"g","o","o","g","l","e",".","c","o","m">>,
      <<"f","a","c","e","b","o","o","k",".","c","o","m">>, <<"m","e","t","a",".","c","o","m">>,
      <<"a","p","p","l","e",".","c","o","m">>, <<"a","m","a","z","o","n",".","c","o","m">>,
      <<"n","e","t","f","l","i","x",".","c","o","m">>, <<"u","b","e","r",".","c","o","m">>,
      <<"a","i","r","b","n","b",".","c","o","m">>, <<"t","w","i","t","t","e","r",".","c","o","m">>,
      <<"l","i","n","k","e","d","i","n",".","c","o","m">>, <<"g","i","t","h","u","b",".","c","o","m">>,
      <<"g","i","t","l","a","b",".","c","o","m">>, <<"a","t","l","a","s","s","i","a","n",".","c","o","m">>,
      <<"s","a","l","e","s","f","o","r","c","e",".","c","o","m">>, <<"o","r","a","c","l","e",".","c","o","m">>,
      <<"i","b","m",".","c","o","m">>, <<"i","n","t","e","l",".","c","o","m">>,
      <<"n","v","i","d","i","a",".","c","o","m">>, <<"a","m","d",".","c","o","m">>,
      <<"c","i","s","c","o",".","c","o","m">>, <<"v","m","w","a","r","e",".","c","o","m">>,
      <<"r","e","d","h","a","t",".","c","o","m">>, <<"c","a","n","o","n","i","c","a","l",".","c","o","m">>,
      <<"m","o","z","i","l","l","a",".","o","r","g">>, <<"s","p","o","t","i","f","y",".","c","o","m">>,
      <<"d","r","o","p","b","o","x",".","c","o","m">>, <<"s","l","a","c","k",".","c","o","m">>,
      <<"z","o","o","m",".","u","s">>, <<"d","o","c","k","e","r",".","c","o","m">>,
      <<"h","a","s","h","i","c","o","r","p",".","c","o","m">> }

personal_domains ==
    { <<"g","m","a","i","l",".","c","o","m">>, <<"y","a","h","o","o",".","c","o","m">>,
      <<"h","o","t","m","a","i","l",".","c","o","m">>, <<"o","u","t","l","o","o","k",".","c","o","m">>,
      <<"l","i","v","e",".","c","o","m">>, <<"i","c","l","o","u","d",".","c","o","m">>,
      <<"p","r","o","t","o","n","m","a","i","l",".","c","o","m">>, <<"m","a","i","l",".","c","o","m">>,
      <<"y","a","n","d","e","x",".","c","o","m">>, <<"q","q",".","c","o","m">>,
      <<"1","6","3",".","c","o","m">>, <<"1","2","6",".","c","o","m">>,
      <<"s","i","n","a",".","c","o","m">>, <<"s","o","h","u",".","c","o","m">>,
      <<"n","a","v","e","r",".","c","o","m">>, <<"d","a","u","m",".","n","e","t">>,
      <<"w","e","b",".","d","e">>, <<"g","m","x",".","d","e">>,
      <<"t","-","o","n","l","i","n","e",".","d","e">>, <<"f","r","e","e",".","f","r">>,
      <<"l","a","p","o","s","t","e",".","n","e","t">> }

academic_tlds ==
    { <<".","e","d","u">>, <<".","a","c",".","u","k">>, <<".","e","d","u",".","a","u">>,
      <<".","a","c",".","j","p">>, <<".","e","d","u",".","c","n">> }

\* custom_domains or [] of a ProjectRiskAnalyzer() built without arguments
custom_domains == {}

no_email_available == "no email available"

(***************************************************************************)
(* _classify_email_domain                                                  *)
(***************************************************************************)
\* (variant: the company list is consulted before the custom domains)
classify_email_domain_of_CompanyFirst(self_custom_domains, email) ==
    IF email = <<>> \/ ~HasAt(email) THEN no_email_available
    ELSE LET domain == LowerStr(AfterLastAt(email))
         IN  IF domain \in company_domains THEN "company"
             ELSE IF domain \in self_custom_domains THEN "custom"
             ELSE IF \E tld \in academic_tlds : EndsWith(domain, tld)
                  THEN "academic"
             ELSE "personal"

\* the method for an analyzer whose self.custom_domains is the given set
classify_email_domain_of(self_custom_domains, email) ==
    IF email = <<>> \/ ~HasAt(email) THEN no_email_available
    ELSE LET domain == LowerStr(AfterLastAt(email))
         IN  IF domain \in self_custom_domains THEN "custom"
             ELSE IF domain \in company_domains THEN "company"
             ELSE IF \E tld \in academic_tlds : EndsWith(domain, tld)
                  THEN "academic"
             ELSE IF domain \in personal_domains THEN "personal"
             ELSE "personal"

classify_email_domain(email) == classify_email_domain_of(custom_domains, email)

(***************************************************************************)
(* _is_bot_account                                                         *)
(***************************************************************************)

bot_indicators ==
    << <<"b","o","t">>, <<"a","u","t","o","m","a","t","e","d">>,
      <<"a","u","t","o">>, <<"c","i">>,
      <<"c","d">>, <<"d","e","p","l","o","y">>,
      <<"b","u","i","l","d">>, <<"g","i","t","h","u","b","-","a","c","t","i","o","n","s">>,
      <<"d","e","p","e","n","d","a","b","o","t">>, <<"r","e","n","o","v","a","t","e">>,
      <<"g","r","e","e","n","k","e","e","p","e","r">>, <<"c","o","d","e","c","o","v">>,
      <<"c","o","d","e","c","l","i","m","a","t","e">>, <<"t","r","a","v","i","s">>,
      <<"a","p","p","v","e","y","o","r">>, <<"j","e","n","k","i","n","s">>,
      <<"d","r","o","n","e">>, <<"c","i","r","c","l","e","c","i">>,
      <<"g","i","t","l","a","b","-","c","i">>, <<"a","z","u","r","e","-","d","e","v","o","p","s">>,
      <<"t","e","a","m","c","i","t","y">>, <<"s","e","r","v","i","c","e">>,
      <<"a","u","t","o","m","a","t","i","o","n">>, <<"p","i","p","e","l","i","n","e">>,
      <<"w","o","r","k","f","l","o","w">>, <<"a","c","t","i","o","n">> >>

bot_email_patterns ==
    << <<"n","o","r","e","p","l","y">>, <<"n","o","-","r","e","p","l","y">>,
      <<"a","u","t","o","m","a","t","i","o","n">>, <<"b","o","t">>,
      <<"c","i">>, <<"c","d">>,
      <<"g","i","t","h","u","b","-","a","c","t","i","o","n","s">>, <<"d","e","p","e","n","d","a","b","o","t">>,
      <<"r","e","n","o","v","a","t","e">> >>

s_bot_suffix == <<"[","b","o","t","]">>

is_bot_account(login, name, email) ==
    IF login = <<>> THEN FALSE
    ELSE LET login_lower == LowerStr(login)
             name_lower  == LowerStr(name)
             email_lower == LowerStr(email)
         IN  \/ \E i \in 1..Len(bot_indicators) :
                    Contains(login_lower, bot_indicators[i])
             \/ \E i \in 1..Len(bot_indicators) :
                    Contains(name_lower, bot_indicators[i])
             \/ /\ email # <<>>
                /\ \E i \in 1..Len(bot_email_patterns) :
                       Contains(email_lower, bot_email_patterns[i])
             \/ EndsWith(login_lower, s_bot_suffix)
             \/ EndsWith(name_lower, s_bot_suffix)

(***************************************************************************)
(* Bounds of the model and the inputs its actions draw.                    *)
(***************************************************************************)
MaxCommits == 2

MaxIssues == 1

MaxReviews == 1

\* analysis_window_days as set by handle_call_tool (schema: 1..365)
Windows == {3, 8}

\* whole days between a record's timestamp and now (negative: in the future)
RawAges == {-1, 1, 6, 9}

CommentCounts == {0, 1, 9}

\* closed_at - created_at in days; <<>> is an open issue/PR
ClosedDays == {<<>>, <<4>>, <<8>>}

s_unknown == <<"u","n","k","n","o","w","n">>
s_Unknown == <<"U","n","k","n","o","w","n">>
ann == <<"a","n","n">>
bob == <<"b","o","b">>
cy == <<"c","y">>
depbot == <<"d","e","p","e","n","d","a","b","o","t","[","b","o","t","]">>
name_Ann == <<"A","n","n">>
name_Bob == <<"B","o","b">>
name_Jenkins == <<"J","e","n","k","i","n","s"," ","C","I">>
mail_ann == <<"a","n","n","@","Q","Q",".","c","o","m">>
mail_bob == <<"b","o","b","@","m","i","t",".","e","d","u">>
mail_cy == <<"c","y","@","i","b","m",".","c","o","m">>
mail_noreply == <<"b","o","b","@","u","s","e","r","s",".","n","o","r","e","p","l","y",".","g","i","t","h","u","b",".","c","o","m">>

\* An optional JSON field is <<>> (absent) or <<value>>.
Get(opt, default) == IF opt = <<>> THEN default ELSE opt[1]

\* author.login, commit.author.name, commit.author.email of a commit object
CommitAuthors ==
    { [login |-> <<ann>>,    name |-> <<name_Ann>>,     email |-> <<mail_ann>>],
      [login |-> <<bob>>,    name |-> <<name_Bob>>,     email |-> <<mail_bob>>],
      [login |-> <<>>,       name |-> <<cy>>,           email |-> <<mail_cy>>],
      [login |-> <<>>,       name |-> <<>>,             email |-> <<>>],
      [login |-> <<depbot>>, name |-> <<depbot>>,       email |-> <<>>],
      [login |-> <<ann>>,    name |-> <<name_Jenkins>>, email |-> <<>>],
      [login |-> <<bob>>,    name |-> <<name_Bob>>,     email |-> <<mail_noreply>>] }

RawCommits == { [author |-> a, age |-> d] : a \in CommitAuthors, d \in RawAges }

IssueAuthors == {<<>>, <<ann>>, <<bob>>, <<depbot>>}

Reviewers == {<<>>, <<ann>>, <<cy>>, <<depbot>>}

ReviewLists == UNION { [1..n -> Reviewers] : n \in 0..MaxReviews }

\* user.login, pull_request, created_at, reviews of an issue object (the fetch
\* attaches "reviews" to pull requests only)
RawIssues ==
    { [user |-> u, pull_request |-> p, age |-> d, reviews |-> rs] :
        u \in IssueAuthors, p \in BOOLEAN, d \in RawAges, rs \in ReviewLists } \
    { r \in [user : IssueAuthors, pull_request : {FALSE}, age : RawAges,
             reviews : ReviewLists] : r.reviews # <<>> }

ParticipantPool == {ann, bob, depbot}

(***************************************************************************)
(* State.                                                                  *)
(***************************************************************************)
VARIABLES
    analysis_window_days,  \* self.analysis_window_days
    pc,                    \* position of the analysis
    active_contributors,   \* the ledger: a dict in insertion order
    recent_commits,        \* len(recent_commits)
    recent_issues,         \* recent_issues: the pull_request flag of each record
    cur,                   \* the issue/PR record being folded
    appeared,              \* logins seen in a counted role (history)
    risk_factors,          \* the risk-factor bundle
    recommendations,       \* the report's recommendation list
    args,                  \* arguments of a function called on its own
    ret                    \* what it returned

vars == <<analysis_window_days, pc, active_contributors, recent_commits,
          recent_issues, cur, appeared, risk_factors, recommendations,
          args, ret>>

Min(a, b) == IF a < b THEN a ELSE b

Max(a, b) == IF a > b THEN a ELSE b

(***************************************************************************)
(* _filter_recent_commits / _filter_recent_issues: date >= now - window.   *)
(***************************************************************************)
InWindow(age, window) == age <= window

(***************************************************************************)
(* get_quarter: None for a date outside the window, else 3 - min(3, ...).  *)
(* quarter_length = window // 4 is 0 for a window under 4 days, and the    *)
(* floor division then raises ZeroDivisionError.                           *)
(***************************************************************************)
get_quarter(days_ago, window) ==
    LET quarter_length == window \div 4
    IN  IF days_ago < 0 \/ days_ago > window
        THEN [kind |-> "None", q |-> 0]
        ELSE IF quarter_length = 0
        THEN [kind |-> "ZeroDivisionError", q |-> 0]
        ELSE [kind |-> "quarter", q |-> 3 - Min(3, days_ago \div quarter_length)]

(***************************************************************************)
(* The ledger.                                                             *)
(***************************************************************************)
NewContributor(login, email_type) ==
    [login |-> login, email_type |-> email_type,
     commits |-> 0, issues_created |-> 0, prs_created |-> 0,
     reviews_given |-> 0, comments_made |-> 0, total_activity |-> 0,
     quarterly_activity |-> <<0, 0, 0, 0>>, activity_trend |-> "unset"]

Keys(ledger) == { ledger[i].login : i \in 1..Len(ledger) }

IndexOf(ledger, login) == CHOOSE i \in 1..Len(ledger) : ledger[i].login = login

\* if login not in active_contributors: active_contributors[login] = {...}
Ensure(ledger, login, email_type) ==
    IF login \in Keys(ledger) THEN ledger
    ELSE Append(ledger, NewContributor(login, email_type))

\* (variant: every increment also raises total_activity)
Increment_KeepsTotal(entry, field, n) ==
    [entry EXCEPT ![field] = @ + n, !.total_activity = @ + n]

\* active_contributors[login][field] += n
Increment(entry, field, n) == [entry EXCEPT ![field] = @ + n]

\* if quarter is not None: quarterly_activity[quarter] += 1
Bucket(entry, quarter) ==
    IF quarter.kind = "quarter"
    THEN [entry EXCEPT !.quarterly_activity[quarter.q + 1] = @ + 1]
    ELSE entry

\* (variant: the record is bucketed but no counter is raised)
Update_BucketOnly(ledger, login, field, n, quarter) ==
    [ledger EXCEPT ![IndexOf(ledger, login)] = Bucket(@, quarter)]

Update(ledger, login, field, n, quarter) ==
    [ledger EXCEPT ![IndexOf(ledger, login)] =
        Bucket(Increment(@, field, n), quarter)]

NoRecord == [active |-> FALSE, skipped |-> FALSE]

(***************************************************************************)
(* _analyze_contributor_concentration, step 1: one iteration of            *)
(* "for commit in recent_commits".                                         *)
(***************************************************************************)
CommitLogin(c) ==
    LET author_login == Get(c.author.login, s_unknown)
        author_name  == Get(c.author.name, s_Unknown)
    IN  IF author_login = s_unknown /\ author_name # s_Unknown
        THEN author_name
        ELSE author_login

CommitIsBot(c) ==
    is_bot_account(CommitLogin(c), Get(c.author.name, s_Unknown),
                   Get(c.author.email, <<>>))

FoldCommit ==
    /\ pc = "commits"
    /\ recent_commits < MaxCommits
    /\ \E c \in RawCommits :
         IF ~InWindow(c.age, analysis_window_days)
         THEN UNCHANGED vars
         ELSE
           /\ recent_commits' = recent_commits + 1
           /\ IF CommitIsBot(c)
              THEN UNCHANGED <<pc, active_contributors, appeared>>
              ELSE
                LET author_login == CommitLogin(c)
                    email_type   == classify_email_domain(Get(c.author.email, <<>>))
                    quarter      == get_quarter(c.age, analysis_window_days)
                    ledger       == Ensure(active_contributors, author_login, email_type)
                IN  /\ active_contributors' =
                           Update(ledger, author_login, "commits", 1, quarter)
                    /\ appeared' = IF author_login = s_unknown THEN appeared
                                   ELSE appeared \cup {author_login}
                    /\ pc' = IF quarter.kind = "ZeroDivisionError"
                             THEN "failed" ELSE pc
           /\ UNCHANGED <<analysis_window_days, recent_issues, cur,
                          risk_factors, recommendations,
                   args, ret>>

\* the commit loop is exhausted
EndCommits ==
    /\ pc = "commits"
    /\ pc' = "issues"
    /\ UNCHANGED <<analysis_window_days, active_contributors, recent_commits,
                   recent_issues, cur, appeared, risk_factors, recommendations,
                   args, ret>>

(***************************************************************************)
(* Step 2: "for issue in recent_issues", up to the author's own counter.   *)
(***************************************************************************)
Countable(login) == login # s_unknown /\ ~is_bot_account(login, <<>>, <<>>)

\* the non-bot, known logins of a record's author and nested reviewers
RecordLogins(r) ==
    { l \in {Get(r.user, s_unknown)} \cup
            { Get(r.reviews[i], s_unknown) : i \in 1..Len(r.reviews) } :
        Countable(l) }

FoldIssue ==
    /\ pc = "issues"
    /\ Len(recent_issues) < MaxIssues
    /\ \E r \in RawIssues :
         IF ~InWindow(r.age, analysis_window_days)
         THEN UNCHANGED vars
         ELSE
           LET author_login == Get(r.user, s_unknown)
               quarter      == get_quarter(r.age, analysis_window_days)
               ledger       == Ensure(active_contributors, author_login, "N/A")
               field        == IF r.pull_request THEN "prs_created"
                               ELSE "issues_created"
           IN  /\ recent_issues' = Append(recent_issues, r.pull_request)
               /\ appeared' = appeared \cup RecordLogins(r)
               /\ IF ~Countable(author_login)
                  THEN \* "continue": the rest of the record is never read; cur
                       \* keeps the reviews, comment count and participants it
                       \* carried
                       /\ UNCHANGED <<pc, active_contributors>>
                       /\ \E n \in CommentCounts, ps \in SUBSET ParticipantPool :
                            /\ r.pull_request \/ r.user = <<>> \/ author_login \in ps
                            /\ cur' = [active |-> FALSE, skipped |-> TRUE,
                                       pull_request |-> r.pull_request,
                                       reviews |-> r.reviews,
                                       comments |-> n, participants |-> ps]
                  ELSE IF quarter.kind = "ZeroDivisionError"
                  THEN /\ active_contributors' = ledger
                       /\ pc' = "failed"
                       /\ cur' = NoRecord
                  ELSE /\ active_contributors' =
                              Update(ledger, author_login, field, 1, quarter)
                       /\ pc' = "reviews"
                       /\ cur' = [active |-> TRUE, skipped |-> FALSE,
                                  author_login |-> author_login,
                                  pull_request |-> r.pull_request,
                                  quarter |-> quarter, reviews |-> r.reviews,
                                  comments |-> 0, participants |-> {}]
               /\ UNCHANGED <<analysis_window_days, recent_commits,
                              risk_factors, recommendations,
                   args, ret>>

(***************************************************************************)
(* Step 3: one iteration of "for review in issue.get('reviews', [])".      *)
(***************************************************************************)
FoldReview ==
    /\ pc = "reviews"
    /\ cur.reviews # <<>>
    /\ LET reviewer_login == Get(Head(cur.reviews), s_unknown)
           ledger         == Ensure(active_contributors, reviewer_login, "N/A")
       IN  /\ active_contributors' =
                  IF Countable(reviewer_login) /\ reviewer_login # cur.author_login
                  THEN Update(ledger, reviewer_login, "reviews_given", 1, cur.quarter)
                  ELSE active_contributors
           /\ cur' = [cur EXCEPT !.reviews = Tail(@)]
    /\ UNCHANGED <<analysis_window_days, pc, recent_commits, recent_issues,
                   appeared, risk_factors, recommendations,
                   args, ret>>

(***************************************************************************)
(* Step 4: comments_count and participants of the record are read ...      *)
(***************************************************************************)
ReadComments ==
    /\ pc = "reviews"
    /\ cur.reviews = <<>>
    /\ \E n \in CommentCounts, ps \in SUBSET ParticipantPool :
         \* a plain issue's participants are its author and its assignees
         /\ cur.pull_request \/ cur.author_login \in ps
         /\ cur' = [cur EXCEPT !.comments = n, !.participants = ps]
    /\ pc' = "comments"
    /\ UNCHANGED <<analysis_window_days, active_contributors, recent_commits,
                   recent_issues, appeared, risk_factors, recommendations,
                   args, ret>>

HumanParticipants(ps) == { p \in ps : p # <<>> /\ ~is_bot_account(p, <<>>, <<>>) }

\* (variant: every participant is credited the record's whole comment count)
comments_per_participant_Whole(comments_count, human_participants) ==
    Max(1, comments_count)

comments_per_participant(comments_count, human_participants) ==
    Max(1, comments_count \div Cardinality(human_participants))

\* ... and distributed over the participants that are ledger keys
Distribute(ledger, comments_count, participants) ==
    LET human_participants == HumanParticipants(participants)
    IN  IF comments_count > 0 /\ participants # {} /\ human_participants # {}
        THEN [i \in 1..Len(ledger) |->
                 IF ledger[i].login \in human_participants
                 THEN Increment(ledger[i], "comments_made",
                          comments_per_participant(comments_count, human_participants))
                 ELSE ledger[i]]
        ELSE ledger

DistributeComments ==
    /\ pc = "comments"
    /\ active_contributors' =
           Distribute(active_contributors, cur.comments, cur.participants)
    /\ pc' = "issues"
    /\ cur' = NoRecord
    /\ UNCHANGED <<analysis_window_days, recent_commits, recent_issues,
                   appeared, risk_factors, recommendations,
                   args, ret>>

(***************************************************************************)
(* Step 6 and the trend detector: "for login, contributor in               *)
(* active_contributors.items()" after the folds.                           *)
(***************************************************************************)
\* (variant: the recomputation leaves comments_made out)
SumOfCounters_NoComments(entry) ==
    entry.commits + entry.issues_created + entry.prs_created +
    entry.reviews_given

SumOfCounters(entry) ==
    entry.commits + entry.issues_created + entry.prs_created +
    entry.reviews_given + entry.comments_made

TrendThreshold == 10

\* (variant: ratio >= 1.5 instead of ratio > 1.5)
activity_trend_AtLeast(total_activity, quarters) ==
    LET recent_half == quarters[3] + quarters[4]
        older_half  == quarters[1] + quarters[2]
    IN  IF total_activity >= 10
        THEN IF older_half = 0 /\ recent_half > 0 THEN "increasing"
             ELSE IF recent_half = 0 /\ older_half > 0 THEN "decreasing"
             ELSE IF older_half = 0 /\ recent_half = 0 THEN "stable"
             ELSE IF 2 * recent_half >= 3 * older_half THEN "increasing"
             ELSE IF 100 * recent_half < 67 * older_half THEN "decreasing"
             ELSE "stable"
        ELSE "insufficient_data"

\* ratio > 1.5 and ratio < 0.67 on recent_half / older_half, cross-multiplied
activity_trend(total_activity, quarters) ==
    LET recent_half == quarters[3] + quarters[4]
        older_half  == quarters[1] + quarters[2]
    IN  IF total_activity >= TrendThreshold
        THEN IF older_half = 0 /\ recent_half > 0 THEN "increasing"
             ELSE IF recent_half = 0 /\ older_half > 0 THEN "decreasing"
             ELSE IF older_half = 0 /\ recent_half = 0 THEN "stable"
             ELSE IF 2 * recent_half > 3 * older_half THEN "increasing"
             ELSE IF 100 * recent_half < 67 * older_half THEN "decreasing"
             ELSE "stable"
        ELSE "insufficient_data"

Annotate(entry) ==
    LET total == SumOfCounters(entry)
    IN  [entry EXCEPT !.total_activity = total,
                      !.activity_trend =
                          activity_trend(total, entry.quarterly_activity)]

ComputeTotals ==
    /\ pc = "issues"
    /\ active_contributors' =
           [i \in 1..Len(active_contributors) |-> Annotate(active_contributors[i])]
    /\ pc' = "analyzed"
    /\ cur' = NoRecord
    /\ UNCHANGED <<analysis_window_days, recent_commits, recent_issues,
                   appeared, risk_factors, recommendations,
                   args, ret>>

(***************************************************************************)
(* Exact fractions, and round(x, 2) as a count of hundredths.              *)
(***************************************************************************)
Rat(n, d) == [num |-> n, den |-> d]

\* round(n / d, 2) * 100, ties to even
Round2(n, d) ==
    LET q == (100 * n) \div d
        r == (100 * n) % d
    IN  IF 2 * r > d THEN q + 1
        ELSE IF 2 * r = d THEN q + (q % 2)
        ELSE q

RECURSIVE SumSeq(_)
SumSeq(s) == IF s = <<>> THEN 0 ELSE Head(s) + SumSeq(Tail(s))

Average(times) == IF times = <<>> THEN <<>> ELSE <<Round2(SumSeq(times), Len(times))>>

(***************************************************************************)
(* _calculate_repository_statistics                                        *)
(***************************************************************************)
\* (closed_at - created_at) in days of the closed records of the given kinds;
\* issues[i] is the pull_request flag and closed[i] the close time of record i
CloseTimes(issues, closed, kinds) ==
    LET RECURSIVE Collect(_)
        Collect(i) ==
            IF i > Len(issues) THEN <<>>
            ELSE IF issues[i] \in kinds /\ closed[i] # <<>>
                 THEN <<closed[i][1]>> \o Collect(i + 1)
                 ELSE Collect(i + 1)
    IN  Collect(1)

calculate_repository_statistics(issues, closed, n_commits, window) ==
    LET stats == [total_issues |-> 0, total_prs |-> 0,
                  closed_issues |-> 0, closed_prs |-> 0,
                  avg_issue_close_time_days |-> <<>>,
                  avg_pr_close_time_days |-> <<>>,
                  avg_response_time_days |-> <<>>,
                  total_commits |-> n_commits,
                  commit_frequency_per_day |-> 0]
        Count(is_pr) ==
            Cardinality({ i \in 1..Len(issues) : issues[i] = is_pr })
    IN  IF issues = <<>> THEN stats
        ELSE [stats EXCEPT
                !.total_issues = Count(FALSE),
                !.total_prs = Count(TRUE),
                !.closed_issues = Len(CloseTimes(issues, closed, {FALSE})),
                !.closed_prs = Len(CloseTimes(issues, closed, {TRUE})),
                !.avg_issue_close_time_days = Average(CloseTimes(issues, closed, {FALSE})),
                !.avg_pr_close_time_days = Average(CloseTimes(issues, closed, {TRUE})),
                !.avg_response_time_days = Average(CloseTimes(issues, closed, BOOLEAN)),
                !.commit_frequency_per_day =
                    IF window > 0 THEN Round2(n_commits, window) ELSE 0]

(***************************************************************************)
(* The concentration scorer: the rest of                                   *)
(* _analyze_contributor_concentration.                                     *)
(***************************************************************************)
\* sorted(..., key=total_activity, reverse=True): stable, descending
sorted_by_total(ledger) ==
    LET Before(j, i) ==
            \/ ledger[j].total_activity > ledger[i].total_activity
            \/ /\ ledger[j].total_activity = ledger[i].total_activity
               /\ j < i
        Rank(i) == Cardinality({ j \in 1..Len(ledger) : Before(j, i) }) + 1
    IN  [k \in 1..Len(ledger) |->
            ledger[CHOOSE i \in 1..Len(ledger) : Rank(i) = k]]

TotalOf(contributors) ==
    SumSeq([i \in 1..Len(contributors) |-> contributors[i].total_activity])

Percentage(part, total_activity) ==
    IF total_activity > 0 THEN Rat(100 * part, total_activity) ELSE Rat(0, 1)

\* (variant: the score is not floored at 0.0)
concentration_risk_NoFloor(pct) ==
    Rat(Min(40 * pct.den, pct.num - 30 * pct.den), 40 * pct.den)

\* min(1.0, max(0.0, (top_contributor_percentage - 30) / 40))
concentration_risk(pct) ==
    Rat(Min(40 * pct.den, Max(0, pct.num - 30 * pct.den)), 40 * pct.den)

ContributorInfo(data, total_activity) ==
    [login |-> data.login, email_type |-> data.email_type,
     activity_breakdown |->
         [commits |-> data.commits, issues_created |-> data.issues_created,
          prs_created |-> data.prs_created, reviews_given |-> data.reviews_given,
          comments_made |-> data.comments_made],
     total_activity |-> data.total_activity,
     activity_percentage |-> Percentage(data.total_activity, total_activity),
     quarterly_activity |-> data.quarterly_activity,
     activity_trend |-> data.activity_trend]

EmptyResult(n_commits, n_issues) ==
    [contributor_concentration_risk |-> Rat(1, 1),
     total_active_contributors |-> 0,
     recent_commits_analyzed |-> n_commits,
     recent_issues_analyzed |-> n_issues,
     active_contributors |-> <<>>,
     top_contributor_percentage |-> Rat(100, 1),
     activity_distribution |-> <<>>]

Result(ledger, n_commits, issues, closed, window) ==
    LET sorted_contributors == sorted_by_total(ledger)
        total_activity == TotalOf(sorted_contributors)
        top_contributor == sorted_contributors[1]
        top_contributor_percentage ==
            Percentage(top_contributor.total_activity, total_activity)
        TopN(n) == TotalOf(SubSeq(sorted_contributors, 1,
                                  Min(n, Len(sorted_contributors))))
    IN  IF ledger = <<>> THEN EmptyResult(n_commits, Len(issues))
        ELSE
        [contributor_concentration_risk |->
             concentration_risk(top_contributor_percentage),
         total_active_contributors |-> Len(ledger),
         recent_commits_analyzed |-> n_commits,
         recent_issues_analyzed |-> Len(issues),
         total_activity_events |-> total_activity,
         repository_statistics |->
             calculate_repository_statistics(issues, closed, n_commits, window),
         top_contributor |->
             [login |-> top_contributor.login,
              total_activity |-> top_contributor.total_activity,
              percentage |-> top_contributor_percentage],
         active_contributors |->
             [i \in 1..Len(sorted_contributors) |->
                 ContributorInfo(sorted_contributors[i], total_activity)],
         activity_distribution |->
             [top_1_contributor_percentage |-> top_contributor_percentage,
              top_3_contributors_percentage |-> Percentage(TopN(3), total_activity),
              top_5_contributors_percentage |-> Percentage(TopN(5), total_activity)]]

BuildResult ==
    /\ pc = "analyzed"
    \* closed_at of each record is first read by the statistics
    /\ \E closed \in [1..Len(recent_issues) -> ClosedDays] :
         risk_factors' = Result(active_contributors, recent_commits,
                                recent_issues, closed, analysis_window_days)
    /\ pc' = "built"
    /\ UNCHANGED <<analysis_window_days, active_contributors, recent_commits,
                   recent_issues, cur, appeared, recommendations,
                   args, ret>>

(***************************************************************************)
(* _generate_recommendations                                               *)
(***************************************************************************)
GetKey(dict, key, default) == IF key \in DOMAIN dict THEN dict[key] ELSE default

\* r > a / b for a fraction r
RatGT(r, a, b) == r.num * b > a * r.den

\* f"{avg:.1f}" of a value given in hundredths: <<whole part, tenths digit>>
Format1f(hundredths) ==
    LET q == hundredths \div 10
        r == hundredths % 10
        tenths == IF r > 5 THEN q + 1
                  ELSE IF r = 5 THEN q + (q % 2)
                  ELSE q
    IN  <<tenths \div 10, tenths % 10>>

Message(text) == [text |-> text, days |-> <<>>]

ABANDONMENT_RISK == Message("ABANDONMENT RISK: Primary contributor (non-company email) shows declining activity")

CAPACITY_RISK == Message("CAPACITY RISK: Project heavily dependent on single non-company contributor")

SECURITY_RISK(avg) ==
    [text |-> "SECURITY RISK: Average PR close time exceeds 5 days",
     days |-> Format1f(avg)]

RECRUIT == Message("Consider actively recruiting additional maintainers")

MONITOR == Message("Monitor contributor diversity")

CRITICAL_FEW == Message("Critical: Very few active contributors")

LOW_COUNT == Message("Low contributor count")

KNOWLEDGE_SHARING == Message("Top 3 contributors handle most activity")

GOOD_DIVERSITY == Message("Project shows good contributor diversity and activity distribution")

\* if email_type in ["personal", "N/A", "unknown"]
non_company_email_types == {"personal", "N/A", "unknown"}

primary_contributor_risk(total_contributors, risk, contributors) ==
    IF RatGT(risk, 1, 2) /\ total_contributors <= 3 /\ contributors # <<>>
    THEN LET top_contributor_data == contributors[1]
         IN  IF top_contributor_data.email_type \in non_company_email_types
             THEN IF top_contributor_data.activity_trend = "decreasing"
                  THEN <<ABANDONMENT_RISK>>
                  ELSE IF top_contributor_data.activity_trend \in {"stable", "increasing"}
                  THEN <<CAPACITY_RISK>>
                  ELSE <<>>
             ELSE <<>>
    ELSE <<>>

security_risk(repo_stats) ==
    LET avg_pr_close_time == GetKey(repo_stats, "avg_pr_close_time_days", <<>>)
    IN  IF avg_pr_close_time # <<>> /\ avg_pr_close_time[1] > 500
        THEN <<SECURITY_RISK(avg_pr_close_time[1])>>
        ELSE <<>>

concentration_advice(risk) ==
    IF RatGT(risk, 7, 10) THEN <<RECRUIT>>
    ELSE IF RatGT(risk, 4, 10) THEN <<MONITOR>>
    ELSE <<>>

count_advice(total_contributors) ==
    IF total_contributors < 3 THEN <<CRITICAL_FEW>>
    ELSE IF total_contributors < 5 THEN <<LOW_COUNT>>
    ELSE <<>>

distribution_advice(activity_dist) ==
    LET top_3_pct == GetKey(activity_dist, "top_3_contributors_percentage", Rat(0, 1))
    IN  IF RatGT(top_3_pct, 80, 1) THEN <<KNOWLEDGE_SHARING>> ELSE <<>>

\* (variant: the closing message is appended whatever fired before)
generate_recommendations_AlwaysGood(factors) ==
    LET total_contributors == GetKey(factors, "total_active_contributors", 0)
        risk == GetKey(factors, "contributor_concentration_risk", Rat(0, 1))
        repo_stats == GetKey(factors, "repository_statistics", <<>>)
        contributors == GetKey(factors, "active_contributors", <<>>)
        activity_dist == GetKey(factors, "activity_distribution", <<>>)
    IN  primary_contributor_risk(total_contributors, risk, contributors)
        \o security_risk(repo_stats)
        \o concentration_advice(risk)
        \o count_advice(total_contributors)
        \o distribution_advice(activity_dist)
        \o <<GOOD_DIVERSITY>>

generate_recommendations(factors) ==
    LET total_contributors == GetKey(factors, "total_active_contributors", 0)
        risk == GetKey(factors, "contributor_concentration_risk", Rat(0, 1))
        repo_stats == GetKey(factors, "repository_statistics", <<>>)
        contributors == GetKey(factors, "active_contributors", <<>>)
        activity_dist == GetKey(factors, "activity_distribution", <<>>)
        fired == primary_contributor_risk(total_contributors, risk, contributors)
                 \o security_risk(repo_stats)
                 \o concentration_advice(risk)
                 \o count_advice(total_contributors)
                 \o distribution_advice(activity_dist)
    IN  IF fired = <<>> THEN <<GOOD_DIVERSITY>> ELSE fired

GenerateRecommendations ==
    /\ pc = "built"
    /\ recommendations' = generate_recommendations(risk_factors)
    /\ pc' = "done"
    /\ UNCHANGED <<analysis_window_days, active_contributors, recent_commits,
                   recent_issues, cur, appeared, risk_factors,
                   args, ret>>

(***************************************************************************)
(* analyze_single_repository on an analyzer whose window handle_call_tool  *)
(* has set.                                                                *)
(***************************************************************************)
Init ==
    /\ analysis_window_days \in Windows
    /\ pc = "commits"
    /\ active_contributors = <<>>
    /\ recent_commits = 0
    /\ recent_issues = <<>>
    /\ cur = NoRecord
    /\ appeared = {}
    /\ risk_factors = <<>>
    /\ recommendations = <<>>
    /\ args = <<>>
    /\ ret = <<>>

Next ==
    \/ FoldCommit
    \/ EndCommits
    \/ FoldIssue
    \/ FoldReview
    \/ ReadComments
    \/ DistributeComments
    \/ ComputeTotals
    \/ BuildResult
    \/ GenerateRecommendations

Spec == Init /\ [][Next]_vars

(***************************************************************************)
(* get_quarter on its own: every window handle_list_tools admits and every *)
(* whole number of elapsed days inside it, day after day.                  *)
(***************************************************************************)
\* inputSchema of analysis_days: "minimum": 1, "maximum": 365
MinWindow == 1

MaxWindow == 365

Idle(position) ==
    /\ analysis_window_days = 0
    /\ pc = position
    /\ active_contributors = <<>>
    /\ recent_commits = 0
    /\ recent_issues = <<>>
    /\ cur = NoRecord
    /\ appeared = {}
    /\ risk_factors = <<>>
    /\ recommendations = <<>>

pipeline == <<analysis_window_days, pc, active_contributors, recent_commits,
              recent_issues, cur, appeared, risk_factors, recommendations>>

InitQuarter ==
    /\ Idle("get_quarter")
    /\ args \in { [window |-> w, days_ago |-> 0] : w \in MinWindow..MaxWindow }
    /\ ret = <<>>

\* ret holds the result for the day before and the result for this day
CallGetQuarter ==
    /\ pc = "get_quarter"
    /\ args.days_ago < args.window
    /\ LET quarter == get_quarter(args.days_ago, args.window)
       IN  ret' = IF ret = <<>> THEN <<quarter>> ELSE <<ret[Len(ret)], quarter>>
    /\ args' = [args EXCEPT !.days_ago = @ + 1]
    /\ UNCHANGED pipeline

NextQuarter == CallGetQuarter

SpecQuarter == InitQuarter /\ [][NextQuarter]_vars

(***************************************************************************)
(* The totals-and-trend step on one ledger entry on its own: an author     *)
(* whose commits fall in any quarters (or in the future) and who was       *)
(* credited any number of comments.                                        *)
(***************************************************************************)
MaxSlot == 3

MaxUnbucketed == 1

TrendEntries ==
    { [NewContributor(ann, "N/A") EXCEPT
          !.commits = q[1] + q[2] + q[3] + q[4] + u,
          !.comments_made = c,
          !.quarterly_activity = q] :
        q \in [1..4 -> 0..MaxSlot], u \in 0..MaxUnbucketed, c \in 0..TrendThreshold }

InitTrend ==
    /\ Idle("trend")
    /\ args \in TrendEntries
    /\ ret = <<>>

CallAnnotate ==
    /\ pc = "trend"
    /\ ret = <<>>
    /\ ret' = <<Annotate(args)>>
    /\ UNCHANGED <<args, pipeline>>

NextTrend == CallAnnotate

SpecTrend == InitTrend /\ [][NextTrend]_vars

(***************************************************************************)
(* The scorer and the synthesizer on their own: the second half of         *)
(* _analyze_contributor_concentration and _generate_recommendations on a   *)
(* ledger as the folds leave it (up to five commit authors of any email    *)
(* category and trend) and on issue/PR records with their close times.     *)
(***************************************************************************)
MaxContributors == 5

dee == <<"d","e","e">>
eve == <<"e","v","e">>
fay == <<"f","a","y">>

ReportLogins == <<ann, bob, cy, dee, eve, fay>>

\* what _classify_email_domain returns for a commit author
CommitEmailTypes == {"personal", "company", "academic", "no email available"}

\* commits of one author per quarter: 1 commit; 20 spread evenly; 20 in the
\* older half
ReportProfiles == {<<0, 0, 0, 1>>, <<5, 5, 5, 5>>, <<10, 10, 0, 0>>}

ReportEntry(login, email_type, q) ==
    Annotate([NewContributor(login, email_type) EXCEPT
                 !.commits = q[1] + q[2] + q[3] + q[4],
                 !.quarterly_activity = q])

ReportLedgers ==
    UNION { { [i \in 1..n |-> ReportEntry(ReportLogins[i], t, qs[i])] :
                qs \in [1..n -> ReportProfiles], t \in CommitEmailTypes } :
            n \in 0..MaxContributors }

\* the pull_request flag and closed_at - created_at of the window's records
ReportIssues ==
    { [issues |-> <<>>,           closed |-> <<>>],
      [issues |-> <<TRUE>>,       closed |-> << <<>> >>],
      [issues |-> <<TRUE>>,       closed |-> << <<4>> >>],
      [issues |-> <<TRUE>>,       closed |-> << <<8>> >>],
      [issues |-> <<TRUE, TRUE>>, closed |-> << <<4>>, <<8>> >>],
      [issues |-> <<FALSE>>,      closed |-> << <<8>> >>] }

InitReport ==
    /\ analysis_window_days = MaxWindow
    /\ pc = "analyzed"
    /\ active_contributors \in ReportLedgers
    /\ recent_commits =
           SumSeq([i \in 1..Len(active_contributors) |->
                      active_contributors[i].commits])
    /\ args \in ReportIssues
    /\ recent_issues = args.issues
    /\ cur = NoRecord
    /\ appeared = {}
    /\ risk_factors = <<>>
    /\ recommendations = <<>>
    /\ ret = <<>>

\* lines 986-1065 on the records of args
ScoreReport ==
    /\ pc = "analyzed"
    /\ risk_factors' = Result(active_contributors, recent_commits,
                              recent_issues, args.closed, analysis_window_days)
    /\ pc' = "built"
    /\ UNCHANGED <<analysis_window_days, active_contributors, recent_commits,
                   recent_issues, cur, appeared, recommendations, args, ret>>

NextReport ==
    \/ ScoreReport
    \/ GenerateRecommendations

SpecReport == InitReport /\ [][NextReport]_vars

(***************************************************************************)
(* analyze_single_repository on a repository whose window holds the        *)
(* commits of one author and no issue or PR (args is that author).         *)
(***************************************************************************)
MaxSoloCommits == 10

SoloWindows == {8, MaxWindow}

SoloAuthors == { a \in CommitAuthors : ~CommitIsBot([author |-> a, age |-> 0]) }

InitSolo ==
    /\ analysis_window_days \in SoloWindows
    /\ pc = "commits"
    /\ active_contributors = <<>>
    /\ recent_commits = 0
    /\ recent_issues = <<>>
    /\ cur = NoRecord
    /\ appeared = {}
    /\ risk_factors = <<>>
    /\ recommendations = <<>>
    /\ args \in SoloAuthors
    /\ ret = <<>>

\* one iteration of "for commit in recent_commits" on a commit of args
SoloFoldCommit ==
    /\ pc = "commits"
    /\ recent_commits < MaxSoloCommits
    /\ \E d \in RawAges :
         LET c            == [author |-> args, age |-> d]
             author_login == CommitLogin(c)
             email_type   == classify_email_domain(Get(c.author.email, <<>>))
             quarter      == get_quarter(c.age, analysis_window_days)
             ledger       == Ensure(active_contributors, author_login, email_type)
         IN  IF ~InWindow(c.age, analysis_window_days)
             THEN UNCHANGED vars
             ELSE /\ recent_commits' = recent_commits + 1
                  /\ active_contributors' =
                         Update(ledger, author_login, "commits", 1, quarter)
                  /\ appeared' = IF author_login = s_unknown THEN appeared
                                 ELSE appeared \cup {author_login}
                  /\ pc' = IF quarter.kind = "ZeroDivisionError"
                           THEN "failed" ELSE pc
                  /\ UNCHANGED <<analysis_window_days, recent_issues, cur,
                                 risk_factors, recommendations, args, ret>>

\* _filter_recent_issues and the statistics on an empty issue list
SoloBuildResult ==
    /\ pc = "analyzed"
    /\ risk_factors' = Result(active_contributors, recent_commits,
                              recent_issues, <<>>, analysis_window_days)
    /\ pc' = "built"
    /\ UNCHANGED <<analysis_window_days, active_contributors, recent_commits,
                   recent_issues, cur, appeared, recommendations, args, ret>>

NextSolo ==
    \/ SoloFoldCommit
    \/ EndCommits
    \/ ComputeTotals
    \/ SoloBuildResult
    \/ GenerateRecommendations

SpecSolo == InitSolo /\ [][NextSolo]_vars

\* overall_risk = contributor_risk.get("contributor_concentration_risk", 0.5)
overall_risk(contributor_risk) ==
    GetKey(contributor_risk, "contributor_concentration_risk", Rat(1, 2))

\* "High" if score > 0.7 else "Medium" if score > 0.3 else "Low"
risk_level(overall_risk_score) ==
    IF RatGT(overall_risk_score, 7, 10) THEN "High"
    ELSE IF RatGT(overall_risk_score, 3, 10) THEN "Medium"
    ELSE "Low"

(***************************************************************************)
(* _parse_github_url: 'github.com' in repo_url, strip('/'), split('/'),    *)
(* replace('.git', '').                                                    *)
(***************************************************************************)
s_slash == "/"

s_github_com == <<"g","i","t","h","u","b",".","c","o","m">>

s_dot_git == <<".","g","i","t">>

RECURSIVE StripLeft(_, _)
StripLeft(s, ch) ==
    IF s # <<>> /\ Head(s) = ch THEN StripLeft(Tail(s), ch) ELSE s

RECURSIVE StripRight(_, _)
StripRight(s, ch) ==
    IF s # <<>> /\ s[Len(s)] = ch
    THEN StripRight(SubSeq(s, 1, Len(s) - 1), ch) ELSE s

\* s.strip(ch)
Strip(s, ch) == StripRight(StripLeft(s, ch), ch)

\* s.split(ch): the pieces between the separators, empty pieces included
RECURSIVE Split(_, _)
Split(s, ch) ==
    IF \A i \in 1..Len(s) : s[i] # ch THEN <<s>>
    ELSE LET k == CHOOSE i \in 1..Len(s) :
                      s[i] = ch /\ \A j \in 1..(i - 1) : s[j] # ch
         IN  <<SubSeq(s, 1, k - 1)>> \o Split(SubSeq(s, k + 1, Len(s)), ch)

\* s.replace(sub, '')
RECURSIVE Remove(_, _)
Remove(s, sub) ==
    IF Len(s) < Len(sub) THEN s
    ELSE IF SubSeq(s, 1, Len(sub)) = sub
         THEN Remove(SubSeq(s, Len(sub) + 1, Len(s)), sub)
         ELSE <<Head(s)>> \o Remove(Tail(s), sub)

parse_github_url(repo_url) ==
    IF Contains(repo_url, s_github_com)
    THEN LET parts == Split(Strip(repo_url, s_slash), s_slash)
         IN  IF Len(parts) < 2
             THEN [kind |-> "raise", error |-> "IndexError"]
             ELSE [kind |-> "ok", owner |-> parts[Len(parts) - 1],
                   repo |-> Remove(parts[Len(parts)], s_dot_git)]
    ELSE LET parts == Split(repo_url, s_slash)
         IN  IF Len(parts) # 2
             THEN [kind |-> "raise", error |-> "ValueError"]
             ELSE [kind |-> "ok", owner |-> parts[1], repo |-> parts[2]]

\* repository identifiers a caller may send
url_short == <<"o","/","r">>
url_https == <<"h","t","t","p","s",":","/","/","g","i","t","h","u","b",".","c","o","m","/","o","/","r">>
url_git == <<"h","t","t","p","s",":","/","/","g","i","t","h","u","b",".","c","o","m","/","o","/","r",".","g","i","t">>
url_slash == <<"h","t","t","p","s",":","/","/","g","i","t","h","u","b",".","c","o","m","/","o","/","r","/">>
url_name_only == <<"o">>
url_three == <<"o","/","r","/","x">>
url_owner_only == <<"h","t","t","p","s",":","/","/","g","i","t","h","u","b",".","c","o","m","/","o">>
url_empty == <<>>
url_bare_slash == <<"/">>

\* owner/repo, or a URL with an owner and a repository (an optional .git and
\* trailing slash)
WellFormedIdentifiers == {url_short, url_https, url_git, url_slash}

MalformedIdentifiers ==
    {url_name_only, url_three, url_owner_only, url_empty, url_bare_slash}

Identifiers == WellFormedIdentifiers \cup MalformedIdentifiers

(***************************************************************************)
(* analyze_single_repository as a function of the identifier, of what the  *)
(* data source answers to each fetch, and of the analyzer's token and       *)
(* window.  Every request it begins is listed in "fetches", in order.      *)
(***************************************************************************)
\* response.raise_for_status() passes, raises httpx.HTTPStatusError (404,
\* 403 rate limit, ...), or client.get raises a transport error
FetchOutcomes == {"ok", "http_error", "transport_error"}

Request(fetch, login) == [fetch |-> fetch, login |-> login]

Raised(error, fetches) == [kind |-> "raise", error |-> error, fetches |-> fetches]

RiskAnalysis(repository, overall_risk_score, factors, advice) ==
    [repository |-> repository, overall_risk_score |-> overall_risk_score,
     risk_factors |-> factors, recommendations |-> advice]

Returned(report, fetches) ==
    [kind |-> "return", report |-> report, fetches |-> fetches]

\* _fetch_repository_data raising on an HTTP error status too
fetch_repository_data_RaiseOnStatus(outcome) ==
    CASE outcome = "ok" -> [kind |-> "return", value |-> "repository"]
      [] OTHER -> [kind |-> "raise", error |-> "HTTPStatusError"]

\* _fetch_repository_data: the stub dict on an HTTP error status
fetch_repository_data(outcome) ==
    CASE outcome = "ok" -> [kind |-> "return", value |-> "repository"]
      [] outcome = "http_error" -> [kind |-> "return", value |-> "stub"]
      [] OTHER -> [kind |-> "raise", error |-> "TransportError"]

\* a list fetch that answers [] to every failure
fetch_list_EmptyOnAny(outcome, data) ==
    CASE outcome = "ok" -> [kind |-> "return", value |-> data]
      [] OTHER -> [kind |-> "return", value |-> <<>>]

\* _fetch_commits_data, _fetch_contributors_data, _fetch_issues_data
fetch_list(outcome, data) ==
    CASE outcome = "ok" -> [kind |-> "return", value |-> data]
      [] outcome = "http_error" -> [kind |-> "return", value |-> <<>>]
      [] OTHER -> [kind |-> "raise", error |-> "TransportError"]

\* one iteration of the commit loop (lines 811-853) on ledger
fold_commit(ledger, c, window) ==
    IF CommitIsBot(c) THEN ledger
    ELSE LET author_login == CommitLogin(c)
             email_type   == classify_email_domain(Get(c.author.email, <<>>))
         IN  Update(Ensure(ledger, author_login, email_type), author_login,
                    "commits", 1, get_quarter(c.age, window))

\* one iteration of the issue loop (lines 856-944) on a record without
\* reviews and comments
fold_issue(ledger, r, window) ==
    LET author_login == Get(r.user, s_unknown)
    IN  IF ~Countable(author_login) THEN ledger
        ELSE Update(Ensure(ledger, author_login, "N/A"), author_login,
                    IF r.pull_request THEN "prs_created" ELSE "issues_created",
                    1, get_quarter(r.age, window))

RECURSIVE FoldCommits(_, _, _)
FoldCommits(ledger, commits, window) ==
    IF commits = <<>> THEN ledger
    ELSE FoldCommits(fold_commit(ledger, Head(commits), window),
                     Tail(commits), window)

RECURSIVE FoldIssues(_, _, _)
FoldIssues(ledger, issues, window) ==
    IF issues = <<>> THEN ledger
    ELSE FoldIssues(fold_issue(ledger, Head(issues), window),
                    Tail(issues), window)

\* get_quarter divides by quarter_length = window // 4
QuarterRaises(commits, issues, window) ==
    \/ \E i \in 1..Len(commits) :
           /\ ~CommitIsBot(commits[i])
           /\ get_quarter(commits[i].age, window).kind = "ZeroDivisionError"
    \/ \E i \in 1..Len(issues) :
           /\ Countable(Get(issues[i].user, s_unknown))
           /\ get_quarter(issues[i].age, window).kind = "ZeroDivisionError"

\* _analyze_contributor_sentiment: _fetch_contributor_comments sends
\* requests only with a token, and only for contributors with 10+ activities
sentiment_fetches(ledger, github_token) ==
    LET eligible == SelectSeq(ledger, LAMBDA e : e.total_activity >= 10)
    IN  IF github_token
        THEN [i \in 1..Len(eligible) |-> Request("comments", eligible[i].login)]
        ELSE <<>>

\* _analyze_contributor_concentration and _generate_recommendations
analyze_contributor_concentration(commits, issues, window) ==
    LET recent_c == SelectSeq(commits, LAMBDA c : InWindow(c.age, window))
        recent_i == SelectSeq(issues, LAMBDA r : InWindow(r.age, window))
        folded   == FoldIssues(FoldCommits(<<>>, recent_c, window), recent_i, window)
        ledger   == [i \in 1..Len(folded) |-> Annotate(folded[i])]
    IN  IF QuarterRaises(recent_c, recent_i, window)
        THEN [kind |-> "raise", error |-> "ZeroDivisionError"]
        ELSE [kind |-> "return", ledger |-> ledger,
              value |-> Result(ledger, Len(recent_c),
                               [i \in 1..Len(recent_i) |-> recent_i[i].pull_request],
                               [i \in 1..Len(recent_i) |-> recent_i[i].closed],
                               window)]

analyze_single_repository(repo_url, site, github_token, window) ==
    LET parsed       == parse_github_url(repo_url)
        repo_data    == fetch_repository_data(site.repository)
        commits_data == fetch_list(site.commits, site.commits_data)
        contributors_data == fetch_list(site.contributors, <<>>)
        issues_data  == fetch_list(site.issues, site.issues_data)
        f1 == <<Request("repository", <<>>)>>
        f2 == Append(f1, Request("commits", <<>>))
        f3 == Append(f2, Request("contributors", <<>>))
        f4 == Append(f3, Request("issues", <<>>))
    IN  IF parsed.kind = "raise" THEN Raised(parsed.error, <<>>)
        ELSE IF repo_data.kind = "raise" THEN Raised(repo_data.error, f1)
        ELSE IF commits_data.kind = "raise" THEN Raised(commits_data.error, f2)
        ELSE IF contributors_data.kind = "raise"
             THEN Raised(contributors_data.error, f3)
        ELSE IF issues_data.kind = "raise" THEN Raised(issues_data.error, f4)
        ELSE LET contributor_risk ==
                     analyze_contributor_concentration(commits_data.value,
                                                       issues_data.value, window)
             IN  IF contributor_risk.kind = "raise"
                 THEN Raised(contributor_risk.error, f4)
                 ELSE Returned(
                          RiskAnalysis(repo_url,
                                       overall_risk(contributor_risk.value),
                                       contributor_risk.value,
                                       generate_recommendations(contributor_risk.value)),
                          f4 \o sentiment_fetches(contributor_risk.ledger,
                                                  github_token))

\* what the data source holds for a repository
commit_ann == [author |-> [login |-> <<ann>>, name |-> <<name_Ann>>,
                           email |-> <<mail_ann>>], age |-> 1]

commit_bob == [author |-> [login |-> <<bob>>, name |-> <<name_Bob>>,
                           email |-> <<mail_bob>>], age |-> 6]

SiteCommits ==
    { <<>>,
      [i \in 1..12 |-> commit_ann],
      [i \in 1..13 |-> IF i = 7 THEN commit_bob ELSE commit_ann] }

SiteIssues ==
    { <<>>,
      <<[user |-> <<depbot>>, pull_request |-> TRUE, age |-> 6, closed |-> <<8>>]>>,
      <<[user |-> <<bob>>, pull_request |-> FALSE, age |-> 1, closed |-> <<>>]>> }

Sites ==
    [repository : FetchOutcomes, commits : FetchOutcomes,
     contributors : FetchOutcomes, issues : FetchOutcomes,
     commits_data : SiteCommits, issues_data : SiteIssues]

(***************************************************************************)
(* analyze_repositories: the loop over repo_urls.  args holds the call and *)
(* what the data source answers for each position of the batch; ret holds  *)
(* the loop's position and the list "analyses".                            *)
(***************************************************************************)
MaxBatch == 3

s_unable == "Unable to analyze repository"

Site(repository, commits, contributors, issues, commits_data, issues_data) ==
    [repository |-> repository, commits |-> commits,
     contributors |-> contributors, issues |-> issues,
     commits_data |-> commits_data, issues_data |-> issues_data]

site_busy == Site("ok", "ok", "ok", "ok",
                  <<commit_ann, commit_bob, commit_ann>>,
                  <<[user |-> <<bob>>, pull_request |-> FALSE, age |-> 1,
                     closed |-> <<>>]>>)

site_quiet == Site("ok", "ok", "ok", "ok", <<>>, <<>>)

BatchRepos ==
    { [repo_url |-> url_short,     site |-> site_busy],
      [repo_url |-> url_https,     site |-> [site_busy EXCEPT !.commits = "http_error"]],
      [repo_url |-> url_git,       site |-> [site_busy EXCEPT !.repository = "http_error"]],
      [repo_url |-> url_slash,     site |-> [site_busy EXCEPT !.repository = "transport_error"]],
      [repo_url |-> url_short,     site |-> [site_busy EXCEPT !.issues = "transport_error"]],
      [repo_url |-> url_name_only, site |-> site_quiet] }

BatchWindows == {3, 8}

\* the calls made: every batch of up to MaxBatch of these repositories, and
\* every one-repository batch over all the data source may answer
Batches ==
    UNION { [1..n -> BatchRepos] : n \in 0..MaxBatch }
    \cup { <<[repo_url |-> url_short, site |-> s]>> : s \in Sites }

\* the loop body without its except clause: a raising repository adds nothing
analyze_repositories_step_NoExcept(analyses, repo_url, outcome) ==
    IF outcome.kind = "raise" THEN analyses
    ELSE Append(analyses, outcome.report)

\* the body of "for repo_url in repo_urls" on the list analyses
analyze_repositories_step(analyses, repo_url, outcome) ==
    IF outcome.kind = "raise"
    THEN Append(analyses,
                RiskAnalysis(repo_url, Rat(1, 1), [error |-> outcome.error],
                             <<s_unable>>))
    ELSE Append(analyses, outcome.report)

InitBatch ==
    /\ analysis_window_days \in BatchWindows
    /\ pc = "batch"
    /\ active_contributors = <<>>
    /\ recent_commits = 0
    /\ recent_issues = <<>>
    /\ cur = NoRecord
    /\ appeared = {}
    /\ risk_factors = <<>>
    /\ recommendations = <<>>
    /\ args \in [github_token : {FALSE}, batch : Batches]
    /\ ret = [next |-> 1, analyses |-> <<>>]

AnalyzeNext ==
    /\ pc = "batch"
    /\ ret.next <= Len(args.batch)
    /\ LET b == args.batch[ret.next]
       IN  ret' = [next |-> ret.next + 1,
                   analyses |-> analyze_repositories_step(
                       ret.analyses, b.repo_url,
                       analyze_single_repository(b.repo_url, b.site,
                                                 args.github_token,
                                                 analysis_window_days))]
    /\ UNCHANGED <<analysis_window_days, pc, active_contributors,
                   recent_commits, recent_issues, cur, appeared, risk_factors,
                   recommendations, args>>

ReturnAnalyses ==
    /\ pc = "batch"
    /\ ret.next > Len(args.batch)
    /\ pc' = "batch_returned"
    /\ UNCHANGED <<analysis_window_days, active_contributors, recent_commits,
                   recent_issues, cur, appeared, risk_factors, recommendations,
                   args, ret>>

NextBatch ==
    \/ AnalyzeNext
    \/ ReturnAnalyses

SpecBatch == InitBatch /\ [][NextBatch]_vars

(***************************************************************************)
(* handle_call_tool of the MCP server: one tool call.  args holds the call *)
(* (tool name and arguments), the GITHUB_TOKEN setting and what the data   *)
(* source answers; ret holds the await the analysis has reached, the       *)
(* requests begun so far, the seconds spent inside asyncio.wait_for on     *)
(* answered requests, the seconds the request in flight takes, how the     *)
(* awaited analysis ended and the response.  Only requests take time.      *)
(***************************************************************************)
s_tool == "analyze_repository_contributors"

TimeoutWithSentiment == 120

TimeoutWithoutSentiment == 45

\* seconds a request to the data source may take
Durations == {4, 35}

timeout_seconds(include_sentiment) ==
    IF include_sentiment THEN TimeoutWithSentiment ELSE TimeoutWithoutSentiment

Response(text, detail, data) == [text |-> text, detail |-> detail, data |-> data]

\* handle_call_tool with the TimeoutError left to the generic except clause
call_tool_response_NoTimeoutClause(outcome, include_sentiment, analysis) ==
    CASE outcome = "timeout" ->
             Response("Error analyzing repository", "", <<>>)
      [] outcome = "raised" ->
             Response("Error analyzing repository", analysis.error, <<>>)
      [] OTHER -> Response("json", "", <<analysis.report>>)

\* what handle_call_tool returns once wait_for has ended
call_tool_response(outcome, include_sentiment, analysis) ==
    CASE outcome = "timeout" ->
             Response("Analysis timed out",
                      IF include_sentiment THEN "with sentiment analysis"
                      ELSE "without sentiment analysis", <<>>)
      [] outcome = "raised" ->
             Response("Error analyzing repository", analysis.error, <<>>)
      [] OTHER -> Response("json", "", <<analysis.report>>)

site_active == Site("ok", "ok", "ok", "ok", [i \in 1..12 |-> commit_ann], <<>>)

ToolSites ==
    { site_active,
      site_busy,
      [site_busy EXCEPT !.issues = "transport_error"],
      [site_active EXCEPT !.repository = "http_error"] }

\* arguments.get(...): a key is absent (<<>>) or present (<<v>>)
ToolArguments ==
    [repository_url : {<<>>, <<url_short>>, <<url_owner_only>>,
                       <<url_name_only>>, <<url_bare_slash>>},
     analysis_days : {<<>>, <<0>>, <<8>>, <<366>>},
     include_sentiment : {<<>>, <<FALSE>>, <<TRUE>>}]

ToolCalls ==
    [name : {s_tool}, arguments : ToolArguments,
     github_token : BOOLEAN, site : ToolSites]
    \cup
    [name : {"analyze_project_risk"},
     arguments : {[repository_url |-> <<url_short>>, analysis_days |-> <<>>,
                   include_sentiment |-> <<>>]},
     github_token : {FALSE}, site : {site_busy}]

repository_url == Get(args.arguments.repository_url, <<>>)

analysis_days == Get(args.arguments.analysis_days, MaxWindow)

include_sentiment == Get(args.arguments.include_sentiment, FALSE)

\* the awaits of analyze_single_repository, in order, and what follows each
FetchStages == <<"repository", "commits", "contributors", "issues">>

NotStarted == [stage |-> 0, fetches |-> <<>>, elapsed |-> 0, duration |-> 0,
               outcome |-> "none", response |-> <<>>]

\* what the awaited request of stage k gives back to the analysis
FetchResult(k) ==
    CASE k = 1 -> fetch_repository_data(args.site.repository)
      [] k = 2 -> fetch_list(args.site.commits, args.site.commits_data)
      [] k = 3 -> fetch_list(args.site.contributors, <<>>)
      [] k = 4 -> fetch_list(args.site.issues, args.site.issues_data)
      [] OTHER -> [kind |-> "return", value |-> <<>>]

\* the per-contributor requests _analyze_contributor_sentiment still has to send
PendingComments ==
    LET all == sentiment_fetches(active_contributors, args.github_token)
    IN  IF ret.stage <= Len(FetchStages) THEN <<>>
        ELSE SubSeq(all, Len(ret.fetches) - Len(FetchStages) + 1, Len(all))

InitTool ==
    /\ analysis_window_days = MaxWindow
    /\ pc = "tool_called"
    /\ active_contributors = <<>>
    /\ recent_commits = 0
    /\ recent_issues = <<>>
    /\ cur = NoRecord
    /\ appeared = {}
    /\ risk_factors = <<>>
    /\ recommendations = <<>>
    /\ args \in ToolCalls
    /\ ret = NotStarted

\* lines 74-95: up to the call of asyncio.wait_for
CallTool ==
    /\ pc = "tool_called"
    /\ IF args.name # s_tool
       THEN /\ ret' = [ret EXCEPT !.response =
                          <<Response("Unknown tool", args.name, <<>>)>>]
            /\ pc' = "tool_responded"
            /\ UNCHANGED analysis_window_days
       ELSE IF repository_url = <<>>
       THEN /\ ret' = [ret EXCEPT !.response =
                          <<Response("Error: repository_url is required", "", <<>>)>>]
            /\ pc' = "tool_responded"
            /\ UNCHANGED analysis_window_days
       ELSE /\ analysis_window_days' = analysis_days
            /\ pc' = "tool_running"
            /\ UNCHANGED ret
    /\ UNCHANGED <<active_contributors, recent_commits, recent_issues, cur,
                   appeared, risk_factors, recommendations, args>>

\* analyze_single_repository up to its first await: _parse_github_url
ParseUrl ==
    /\ pc = "tool_running"
    /\ ret.stage = 0
    /\ LET parsed == parse_github_url(repository_url)
       IN  IF parsed.kind = "raise"
           THEN /\ ret' = [ret EXCEPT
                              !.outcome = "raised",
                              !.response = <<call_tool_response(
                                                "raised", include_sentiment, parsed)>>]
                /\ pc' = "tool_responded"
           ELSE /\ ret' = [ret EXCEPT !.stage = 1]
                /\ pc' = "tool_running"
    /\ UNCHANGED <<analysis_window_days, active_contributors, recent_commits,
                   recent_issues, cur, appeared, risk_factors, recommendations,
                   args>>

\* the analysis reaches its next await: the request is sent
StartFetch ==
    /\ pc = "tool_running"
    /\ ret.stage >= 1
    /\ \/ ret.stage <= Len(FetchStages)
       \/ PendingComments # <<>>
    /\ \E d \in Durations :
           ret' = [ret EXCEPT
                      !.fetches = Append(@,
                          IF ret.stage <= Len(FetchStages)
                          THEN Request(FetchStages[ret.stage], <<>>)
                          ELSE Head(PendingComments)),
                      !.duration = d]
    /\ pc' = "tool_awaiting"
    /\ UNCHANGED <<analysis_window_days, active_contributors, recent_commits,
                   recent_issues, cur, appeared, risk_factors, recommendations,
                   args>>

\* the request is answered within the time limit and the analysis runs on
\* to its next await; after the issues it folds the ledger (lines 811-981)
FetchCompletes ==
    /\ pc = "tool_awaiting"
    /\ ret.elapsed + ret.duration <= timeout_seconds(include_sentiment)
    /\ LET result  == FetchResult(ret.stage)
           timed   == [ret EXCEPT !.elapsed = @ + ret.duration, !.duration = 0]
           failed(e) == [timed EXCEPT
                            !.outcome = "raised",
                            !.response = <<call_tool_response(
                                              "raised", include_sentiment, e)>>]
           folded  == analyze_contributor_concentration(
                          fetch_list(args.site.commits, args.site.commits_data).value,
                          result.value, analysis_window_days)
       IN  IF result.kind = "raise"
           THEN /\ ret' = failed(result)
                /\ pc' = "tool_responded"
                /\ UNCHANGED active_contributors
           ELSE IF ret.stage = Len(FetchStages) /\ folded.kind = "raise"
           THEN /\ ret' = failed(folded)
                /\ pc' = "tool_responded"
                /\ UNCHANGED active_contributors
           ELSE /\ ret' = [timed EXCEPT
                              !.stage = IF @ <= Len(FetchStages) THEN @ + 1 ELSE @]
                /\ pc' = "tool_running"
                /\ active_contributors' =
                       IF ret.stage = Len(FetchStages) THEN folded.ledger
                       ELSE active_contributors
    /\ UNCHANGED <<analysis_window_days, recent_commits, recent_issues, cur,
                   appeared, risk_factors, recommendations, args>>

\* wait_for cancels the analysis at the limit and raises TimeoutError
TimeoutExpires ==
    /\ pc = "tool_awaiting"
    /\ ret.elapsed + ret.duration > timeout_seconds(include_sentiment)
    /\ ret' = [ret EXCEPT
                  !.outcome = "timeout",
                  !.response = <<call_tool_response("timeout", include_sentiment,
                                                    <<>>)>>]
    /\ pc' = "tool_responded"
    /\ UNCHANGED <<analysis_window_days, active_contributors, recent_commits,
                   recent_issues, cur, appeared, risk_factors, recommendations,
                   args>>

\* after the last await: statistics, scores, recommendations, and the
\* RiskAnalysis is returned to handle_call_tool (lines 985-1118, 489-502)
AnalysisEnds ==
    /\ pc = "tool_running"
    /\ ret.stage > Len(FetchStages)
    /\ PendingComments = <<>>
    /\ LET contributor_risk ==
               analyze_contributor_concentration(
                   fetch_list(args.site.commits, args.site.commits_data).value,
                   fetch_list(args.site.issues, args.site.issues_data).value,
                   analysis_window_days).value
           advice == generate_recommendations(contributor_risk)
       IN  /\ risk_factors' = contributor_risk
           /\ recommendations' = advice
           /\ ret' = [ret EXCEPT
                         !.outcome = "returned",
                         !.response = <<call_tool_response(
                             "returned", include_sentiment,
                             [report |-> RiskAnalysis(repository_url,
                                             overall_risk(contributor_risk),
                                             contributor_risk, advice)])>>]
    /\ pc' = "tool_responded"
    /\ UNCHANGED <<analysis_window_days, active_contributors, recent_commits,
                   recent_issues, cur, appeared, args>>

NextTool ==
    \/ CallTool
    \/ ParseUrl
    \/ StartFetch
    \/ FetchCompletes
    \/ TimeoutExpires
    \/ AnalysisEnds

SpecTool == InitTool /\ [][NextTool]_vars

(***************************************************************************)
(* _analyze_contributor_sentiment on an annotated ledger: one iteration of *)
(* "for login, contributor_data in contributors.items()" per step.  A      *)
(* message is the pair TextBlob scores it with, in thousandths; args holds *)
(* the GITHUB_TOKEN setting and ret the position of the loop.              *)
(***************************************************************************)
MaxFound == 31

CommentLimit == 30

SentimentThreshold == 10

SentimentTotals == {1, 9, 10, 11}

Scores == { [polarity |-> -500, subjectivity |-> 0],
            [polarity |-> 0, subjectivity |-> 0],
            [polarity |-> 400, subjectivity |-> 600] }

\* the messages of one contributor the data source holds in the window
FoundLists ==
    { [i \in 1..n |-> s] : n \in {0, 1, CommentLimit, MaxFound}, s \in Scores }
    \cup { <<s, t>> : s, t \in Scores }

\* round(n / d), ties to even
RoundDiv(n, d) ==
    LET q == n \div d
        r == n % d
    IN  IF 2 * r > d THEN q + 1
        ELSE IF 2 * r = d THEN q + (q % 2)
        ELSE q

RECURSIVE SumField(_, _)
SumField(s, field) ==
    IF s = <<>> THEN 0 ELSE Head(s)[field] + SumField(Tail(s), field)

\* (variant: return comments, without the slice)
fetch_contributor_comments_NoLimit(github_token, found) ==
    IF ~github_token THEN <<>> ELSE found

\* _fetch_contributor_comments: [] without a token, else comments[:30]
fetch_contributor_comments(github_token, found) ==
    IF ~github_token THEN <<>>
    ELSE SubSeq(found, 1, Min(CommentLimit, Len(found)))

get_sentiment_label(sum, n) ==
    IF sum > 300 * n THEN "positive"
    ELSE IF sum < -300 * n THEN "negative"
    ELSE "neutral"

Placeholder(label) ==
    [average_polarity |-> 0, average_subjectivity |-> 0,
     comments_analyzed |-> 0, sentiment_label |-> label]

\* the value assigned to contributor_data["sentiment_analysis"]
sentiment_analysis(total_activity, comments) ==
    IF total_activity >= SentimentThreshold
    THEN IF comments # <<>>
         THEN [average_polarity |->
                   RoundDiv(SumField(comments, "polarity"), Len(comments)),
               average_subjectivity |->
                   RoundDiv(SumField(comments, "subjectivity"), Len(comments)),
               comments_analyzed |-> Len(comments),
               sentiment_label |->
                   get_sentiment_label(SumField(comments, "polarity"), Len(comments))]
         ELSE Placeholder("no_recent_comments_found")
    ELSE Placeholder("insufficient_activity")

\* contributor_data[key] = value
SetKey(dict, key, value) ==
    [k \in DOMAIN dict \cup {key} |-> IF k = key THEN value ELSE dict[k]]

SentimentEntry(login, total) ==
    Annotate([NewContributor(login, "personal") EXCEPT !.commits = total])

SentimentLedgers ==
    { <<SentimentEntry(ann, t)>> : t \in SentimentTotals }
    \cup { <<SentimentEntry(ann, t), SentimentEntry(bob, u)>> :
             t, u \in SentimentTotals }

InitSentiment ==
    /\ analysis_window_days = MaxWindow
    /\ pc = "sentiment"
    /\ active_contributors \in SentimentLedgers
    /\ recent_commits = 0
    /\ recent_issues = <<>>
    /\ cur = NoRecord
    /\ appeared = {}
    /\ risk_factors = <<>>
    /\ recommendations = <<>>
    /\ args \in [github_token : BOOLEAN]
    /\ ret = [next |-> 1, found |-> <<>>]

\* one iteration; ret.found keeps what the data source held for each login
AnalyzeContributor ==
    /\ pc = "sentiment"
    /\ ret.next <= Len(active_contributors)
    /\ \E found \in FoundLists :
           LET contributor_data == active_contributors[ret.next]
               comments ==
                   IF contributor_data.total_activity >= SentimentThreshold
                   THEN fetch_contributor_comments(args.github_token, found)
                   ELSE <<>>
           IN  /\ active_contributors' =
                      [active_contributors EXCEPT ![ret.next] =
                          SetKey(contributor_data, "sentiment_analysis",
                                 sentiment_analysis(contributor_data.total_activity,
                                                    comments))]
               /\ ret' = [next |-> ret.next + 1,
                          found |-> Append(ret.found,
                              IF contributor_data.total_activity >= SentimentThreshold
                                 /\ args.github_token
                              THEN found ELSE <<>>)]
    /\ UNCHANGED <<analysis_window_days, pc, recent_commits, recent_issues, cur,
                   appeared, risk_factors, recommendations, args>>

EndSentiment ==
    /\ pc = "sentiment"
    /\ ret.next > Len(active_contributors)
    /\ pc' = "sentiment_done"
    /\ UNCHANGED <<analysis_window_days, active_contributors, recent_commits,
                   recent_issues, cur, appeared, risk_factors, recommendations,
                   args, ret>>

NextSentiment ==
    \/ AnalyzeContributor
    \/ EndSentiment

SpecSentiment == InitSentiment /\ [][NextSentiment]_vars

(***************************************************************************)
(* The two tool entry points side by side: handle_call_tool of             *)
(* src/mcp_server.py on one repository, and handle_call_tool of src/app.py *)
(* ("analyze_project_risk"), which formats what analyze_repositories       *)
(* returned into a summary and one dict per report.                        *)
(***************************************************************************)
\* the dict built for one RiskAnalysis a; the score is round(score, 3)
format_analysis(a) ==
    [repository |-> a.repository,
     overall_risk_score |-> RoundDiv(1000 * a.overall_risk_score.num,
                                     a.overall_risk_score.den),
     risk_level |-> risk_level(a.overall_risk_score),
     key_risk_factors |-> a.risk_factors,
     recommendations |-> a.recommendations]

CountWhere(analyses, level) ==
    Cardinality({ i \in 1..Len(analyses) :
                    risk_level(analyses[i].overall_risk_score) = level })

format_results(analyses) ==
    [summary |-> [total_repositories |-> Len(analyses),
                  high_risk_count |-> CountWhere(analyses, "High"),
                  medium_risk_count |-> CountWhere(analyses, "Medium"),
                  low_risk_count |-> CountWhere(analyses, "Low")],
     analyses |-> [i \in 1..Len(analyses) |-> format_analysis(analyses[i])]]

\* src/app.py handle_call_tool: "if not repositories"
RejectEmptyBatch ==
    /\ pc = "batch"
    /\ args.batch = <<>>
    /\ ret' = [next |-> ret.next, analyses |-> ret.analyses,
               response |-> <<Response("Error: No repositories provided for analysis",
                                       "", <<>>)>>]
    /\ pc' = "legacy_responded"
    /\ UNCHANGED <<analysis_window_days, active_contributors, recent_commits,
                   recent_issues, cur, appeared, risk_factors, recommendations,
                   args>>

\* src/app.py handle_call_tool, after "analyses = await ..." has returned
FormatResults ==
    /\ pc = "batch_returned"
    /\ args.batch # <<>>
    /\ ret' = [next |-> ret.next, analyses |-> ret.analyses,
               response |-> <<Response("json", "", <<format_results(ret.analyses)>>)>>]
    /\ pc' = "legacy_responded"
    /\ UNCHANGED <<analysis_window_days, active_contributors, recent_commits,
                   recent_issues, cur, appeared, risk_factors, recommendations,
                   args>>

InitEntry == InitTool \/ InitBatch

NextEntry ==
    \/ NextTool
    \/ NextBatch
    \/ RejectEmptyBatch
    \/ FormatResults

SpecEntry == InitEntry /\ [][NextEntry]_vars

(***************************************************************************)
(* _classify_email_domain on its own, for an analyzer built with any       *)
(* custom_domains: args holds the email and self.custom_domains, ret the   *)
(* value returned.                                                         *)
(***************************************************************************)
ClassifyEmails ==
    { <<>>,
      <<"a","n","n">>,
      <<"@">>,
      <<"a","n","n","@">>,
      <<"a","@","b","@","i","b","m",".","c","o","m">>,
      <<"c","y","@","I","B","M",".","c","o","m">>,
      <<"c","y","@","i","b","m",".","c","o","m">>,
      <<"b","o","b","@","m","i","t",".","e","d","u">>,
      <<"a","n","n","@","Q","Q",".","c","o","m">>,
      <<"x","@","o","x",".","a","c",".","u","k">>,
      <<"a","n","n","@","m","o","d","p","r","o","g",".","d","e">>,
      <<"x","@","e","d","u">>,
      <<"x","@","n","o","t","i","b","m",".","c","o","m">>,
      <<"i","b","m",".","c","o","m","@","g","m","a","i","l",".","c","o","m">>,
      <<"x","@","m","i","t",".","e","d","u",".","o","r","g">>,
      <<"b","o","b","@","M","I","T",".","E","D","U">> }

ClassifyCustomDomains ==
    { {},
      {<<"i","b","m",".","c","o","m">>},
      {<<"m","i","t",".","e","d","u">>},
      {<<"m","o","d","p","r","o","g",".","d","e">>, <<"g","m","a","i","l",".","c","o","m">>},
      {<<"I","B","M",".","c","o","m">>} }

InitClassify ==
    /\ Idle("classify")
    /\ args \in [email : ClassifyEmails, custom_domains : ClassifyCustomDomains]
    /\ ret = <<>>

CallClassify ==
    /\ pc = "classify"
    /\ ret = <<>>
    /\ ret' = <<classify_email_domain_of(args.custom_domains, args.email)>>
    /\ UNCHANGED <<args, pipeline>>

NextClassify == CallClassify

SpecClassify == InitClassify /\ [][NextClassify]_vars

(***************************************************************************)
(* The issue/PR loop of _analyze_contributor_concentration on a given      *)
(* input list: one action per iteration, taking the records in list order. *)
(***************************************************************************)
MaxListed == 2

OrderWindows == {8}

RECURSIVE fold_reviews(_, _, _, _)
\* for review in issue.get("reviews", [])
fold_reviews(ledger, reviews, author_login, quarter) ==
    IF reviews = <<>> THEN ledger
    ELSE LET reviewer_login == Get(Head(reviews), s_unknown)
         IN  fold_reviews(
                 IF Countable(reviewer_login) /\ reviewer_login # author_login
                 THEN Update(Ensure(ledger, reviewer_login, "N/A"),
                             reviewer_login, "reviews_given", 1, quarter)
                 ELSE ledger,
                 Tail(reviews), author_login, quarter)

\* one iteration of "for issue in issues": author, reviews, comments
fold_record(ledger, r, window) ==
    LET author_login == Get(r.user, s_unknown)
        quarter      == get_quarter(r.age, window)
    IN  IF ~Countable(author_login) THEN ledger
        ELSE \* (\o <<>>: the ledger stays a list for the next iteration)
             Distribute(
                 fold_reviews(fold_issue(ledger, r, window), r.reviews,
                              author_login, quarter),
                 r.comments, r.participants) \o <<>>

RECURSIVE fold_records(_, _, _)
fold_records(ledger, issues, window) ==
    IF issues = <<>> THEN ledger
    ELSE fold_records(fold_record(ledger, Head(issues), window),
                      Tail(issues), window)

\* issue/PR objects as the fetch hands them over: author, PR flag, age,
\* nested reviews (PRs only), comment count and participant list
ListedRecords ==
    { r \in [user : {<<ann>>, <<bob>>, <<depbot>>}, pull_request : BOOLEAN,
             age : {1, 6}, reviews : {<<>>, << <<cy>> >>},
             comments : {0, 9},
             participants : {{}, {ann}, {bob}, {ann, bob}}] :
        /\ r.pull_request \/ r.reviews = <<>>
        /\ r.pull_request \/ r.user[1] \in r.participants
        /\ r.age = 6 <=> r.user = <<bob>> }

OrderIdle ==
    /\ pc = "order"
    /\ active_contributors = <<>>
    /\ ret = [commit |-> 1, next |-> 1]
    /\ recent_commits = 0
    /\ recent_issues = <<>>
    /\ cur = NoRecord
    /\ appeared = {}
    /\ risk_factors = <<>>
    /\ recommendations = <<>>

InitOrder ==
    /\ analysis_window_days \in OrderWindows
    /\ args \in [commits : {<<>>, <<commit_ann>>},
                 issues : UNION { [1..n -> ListedRecords] : n \in 0..MaxListed }]
    /\ OrderIdle

\* one iteration of "for commit in commits" on the next commit of the list
FoldListedCommit ==
    /\ pc = "order"
    /\ ret.commit <= Len(args.commits)
    /\ LET c == args.commits[ret.commit]
       IN  IF ~InWindow(c.age, analysis_window_days)
           THEN UNCHANGED <<pc, active_contributors>>
           ELSE /\ active_contributors' =
                       fold_commit(active_contributors, c, analysis_window_days)
                /\ pc' = IF /\ ~CommitIsBot(c)
                            /\ get_quarter(c.age, analysis_window_days).kind
                                   = "ZeroDivisionError"
                         THEN "failed" ELSE pc
    /\ ret' = [ret EXCEPT !.commit = @ + 1]
    /\ UNCHANGED <<analysis_window_days, recent_commits, recent_issues,
                   cur, appeared, risk_factors, recommendations, args>>

\* one iteration of "for issue in issues" on the next record of the list
FoldRecord ==
    /\ pc = "order"
    /\ ret.commit > Len(args.commits)
    /\ ret.next <= Len(args.issues)
    /\ LET r == args.issues[ret.next]
           author_login == Get(r.user, s_unknown)
       IN  IF ~InWindow(r.age, analysis_window_days)
           THEN UNCHANGED <<pc, active_contributors>>
           ELSE IF /\ Countable(author_login)
                   /\ get_quarter(r.age, analysis_window_days).kind
                          = "ZeroDivisionError"
           THEN /\ active_contributors' =
                       Ensure(active_contributors, author_login, "N/A")
                /\ pc' = "failed"
           ELSE /\ active_contributors' =
                       fold_record(active_contributors, r, analysis_window_days)
                /\ UNCHANGED pc
    /\ ret' = [ret EXCEPT !.next = @ + 1]
    /\ UNCHANGED <<analysis_window_days, recent_commits, recent_issues,
                   cur, appeared, risk_factors, recommendations, args>>

EndOrder ==
    /\ pc = "order"
    /\ ret.commit > Len(args.commits)
    /\ ret.next > Len(args.issues)
    /\ pc' = "order_done"
    /\ UNCHANGED <<analysis_window_days, active_contributors, recent_commits,
                   recent_issues, cur, appeared, risk_factors,
                   recommendations, args, ret>>

NextOrder == FoldListedCommit \/ FoldRecord \/ EndOrder

SpecOrder == InitOrder /\ [][NextOrder]_vars

(***************************************************************************)
(* The same loops on windows of 3 and 8 days and on commits and records    *)
(* of any age, ahead of now included.                                      *)
(***************************************************************************)
SlotWindows == {3, 8}

commit_ahead == [commit_ann EXCEPT !.age = -1]

SlotCommits == {commit_ann, commit_bob, commit_ahead}

SlotRecords ==
    { r \in [user : {<<ann>>, <<depbot>>}, pull_request : BOOLEAN,
             age : {-1, 1, 6}, reviews : {<<>>, << <<cy>> >>},
             comments : {0, 9}, participants : {{ann}}] :
        /\ r.pull_request \/ r.reviews = <<>>
        /\ r.pull_request \/ r.user = <<ann>> }

InitSlots ==
    /\ analysis_window_days \in SlotWindows
    /\ args \in [commits : UNION { [1..n -> SlotCommits] : n \in 0..MaxListed },
                 issues : {<<>>} \cup { <<r>> : r \in SlotRecords }]
    /\ OrderIdle

SpecSlots == InitSlots /\ [][NextOrder]_vars

(***************************************************************************)
(* Two calls of handle_call_tool in flight on the event loop.  Each action *)
(* is the code one call runs between two suspension points (the awaited    *)
(* fetches and the awaited sentiment requests).  analysis_window_days maps  *)
(* each analyzer object to its attribute; pc, active_contributors and ret   *)
(* hold, per call, its position, its local ledger and its other locals.     *)
(***************************************************************************)
Calls == {1, 2}

\* self.analysis_window_days = 365
DefaultWindow == 365

PairWindows == {4, 8}

site_mixed == Site("ok", "ok", "ok", "ok", <<commit_bob, commit_ann>>,
                   <<[user |-> <<bob>>, pull_request |-> TRUE, age |-> 6,
                      closed |-> <<8>>]>>)

PairSites == {site_active, site_busy, site_mixed}

\* (variant: the calls use one module-level analyzer object)
analyzer_of_ModuleLevel(call) ==
    CHOOSE o \in Calls : \A other \in Calls : o <= other

\* analyzer = ProjectRiskAnalyzer(): a new object for each call
analyzer_of(call) == call

\* self.analysis_window_days as the call reads it now
WindowOf(call) == analysis_window_days[analyzer_of(call)]

Locals == [since_commits |-> 0, since_issues |-> 0, commits |-> <<>>,
           issues |-> <<>>, cutoff |-> <<>>, outcome |-> <<>>]

InitPair ==
    /\ analysis_window_days = [o \in Calls |-> DefaultWindow]
    /\ pc = [call \in Calls |-> "called"]
    /\ active_contributors = [call \in Calls |-> <<>>]
    /\ args \in [github_token : BOOLEAN,
                 calls : [Calls -> [site : PairSites, analysis_days : PairWindows]]]
    /\ ret = [call \in Calls |-> Locals]
    /\ recent_commits = 0
    /\ recent_issues = <<>>
    /\ cur = NoRecord
    /\ appeared = {}
    /\ risk_factors = <<>>
    /\ recommendations = <<>>

PairUnchanged == <<recent_commits, recent_issues, cur, appeared, risk_factors,
                   recommendations, args>>

\* handle_call_tool up to the awaited repository request
StartAnalysis(call) ==
    /\ pc[call] = "called"
    /\ analysis_window_days' =
           [analysis_window_days EXCEPT
               ![analyzer_of(call)] = args.calls[call].analysis_days]
    /\ pc' = [pc EXCEPT ![call] = "repository"]
    /\ UNCHANGED <<active_contributors, ret, PairUnchanged>>

\* _fetch_commits_data: since_date is taken, the request is sent
RequestCommits(call) ==
    /\ pc[call] = "repository"
    /\ ret' = [ret EXCEPT ![call].since_commits = WindowOf(call)]
    /\ pc' = [pc EXCEPT ![call] = "commits"]
    /\ UNCHANGED <<analysis_window_days, active_contributors, PairUnchanged>>

\* the commits arrive; the contributors request is sent
RequestContributors(call) ==
    /\ pc[call] = "commits"
    /\ ret' = [ret EXCEPT ![call].commits =
                  SelectSeq(args.calls[call].site.commits_data,
                            LAMBDA c : InWindow(c.age, ret[call].since_commits))]
    /\ pc' = [pc EXCEPT ![call] = "contributors"]
    /\ UNCHANGED <<analysis_window_days, active_contributors, PairUnchanged>>

\* _fetch_issues_data: since_date is taken, the request is sent
RequestIssues(call) ==
    /\ pc[call] = "contributors"
    /\ ret' = [ret EXCEPT ![call].since_issues = WindowOf(call)]
    /\ pc' = [pc EXCEPT ![call] = "issues"]
    /\ UNCHANGED <<analysis_window_days, active_contributors, PairUnchanged>>

\* repository_statistics and the rest of the result, _generate_recommendations
FinishAnalysis(call, ledger, commits, issues) ==
    LET recent_c == SelectSeq(commits, LAMBDA c : InWindow(c.age, WindowOf(call)))
        recent_i == SelectSeq(issues, LAMBDA r : InWindow(r.age, WindowOf(call)))
        value == Result(ledger, Len(recent_c),
                        [i \in 1..Len(recent_i) |-> recent_i[i].pull_request],
                        [i \in 1..Len(recent_i) |-> recent_i[i].closed],
                        WindowOf(call))
    IN  [kind |-> "return",
         report |-> RiskAnalysis(url_short, overall_risk(value), value,
                                 generate_recommendations(value))]

\* the issues arrive; _analyze_contributor_concentration folds them into the
\* call's ledger and, with a token and a contributor of 10+ activities,
\* awaits the sentiment requests
Aggregate(call) ==
    /\ pc[call] = "issues"
    /\ LET issues == SelectSeq(args.calls[call].site.issues_data,
                         LAMBDA r : InWindow(r.age, ret[call].since_issues))
           folded == analyze_contributor_concentration(ret[call].commits,
                                                       issues, WindowOf(call))
       IN  IF folded.kind = "raise"
           THEN /\ ret' = [ret EXCEPT ![call].issues = issues,
                                      ![call].outcome =
                                          <<[kind |-> "raise", error |-> folded.error]>>]
                /\ pc' = [pc EXCEPT ![call] = "done"]
                /\ UNCHANGED active_contributors
           ELSE IF sentiment_fetches(folded.ledger, args.github_token) # <<>>
           THEN /\ ret' = [ret EXCEPT ![call].issues = issues,
                                      ![call].cutoff = <<WindowOf(call)>>]
                /\ active_contributors' =
                       [active_contributors EXCEPT ![call] = folded.ledger \o <<>>]
                /\ pc' = [pc EXCEPT ![call] = "sentiment"]
           ELSE /\ ret' = [ret EXCEPT ![call].issues = issues,
                                      ![call].outcome =
                                          <<FinishAnalysis(call, folded.ledger \o <<>>,
                                                           ret[call].commits, issues)>>]
                /\ active_contributors' =
                       [active_contributors EXCEPT ![call] = folded.ledger \o <<>>]
                /\ pc' = [pc EXCEPT ![call] = "done"]
    /\ UNCHANGED <<analysis_window_days, PairUnchanged>>

\* the sentiment requests are answered; the statistics and the report follow
SentimentAnswered(call) ==
    /\ pc[call] = "sentiment"
    /\ ret' = [ret EXCEPT ![call].outcome =
                  <<FinishAnalysis(call, active_contributors[call],
                                   ret[call].commits, ret[call].issues)>>]
    /\ pc' = [pc EXCEPT ![call] = "done"]
    /\ UNCHANGED <<analysis_window_days, active_contributors, PairUnchanged>>

NextPair ==
    \E call \in Calls :
        \/ StartAnalysis(call)
        \/ RequestCommits(call)
        \/ RequestContributors(call)
        \/ RequestIssues(call)
        \/ Aggregate(call)
        \/ SentimentAnswered(call)

SpecPair == InitPair /\ [][NextPair]_vars

(***************************************************************************)
(* The properties checked.                                                 *)
(***************************************************************************)
Folding == {"commits", "issues", "reviews", "comments"}

Folded == {"analyzed", "built", "done"}

Reported == {"built", "done"}

Ledger == { active_contributors[i] : i \in 1..Len(active_contributors) }

FiveCounters(e) ==
    e.commits + e.issues_created + e.prs_created + e.reviews_given + e.comments_made

\* C1: once the folds are over, no ledger key is the login "unknown" and no
\* ledger key is a login that is_bot classifies as a bot.
C1_NoUnknownNoBotKey ==
    pc \in Folded =>
        \A e \in Ledger :
            /\ e.login # s_unknown
            /\ ~is_bot_account(e.login, <<>>, <<>>)

\* C2: once the folds are over, every non-bot, known login that appeared in
\* the window as a commit author, as an issue/PR author or as a reviewer nested
\* in any PR record (whoever authored that PR) has a ledger entry.
C2_EveryCountedLoginHasEntry ==
    pc \in Folded => appeared \subseteq Keys(active_contributors)

\* C3: after all records are folded, hence when the trend label is chosen and
\* in every contributor of the report, total_activity is the sum of the five
\* counters of the entry.
C3_TotalIsSumAfterFold ==
    /\ pc \in Folded =>
           \A e \in Ledger :
               /\ e.total_activity = FiveCounters(e)
               /\ (e.activity_trend = "insufficient_data") <=> (FiveCounters(e) < 10)
    /\ (pc \in Reported /\ active_contributors # <<>>) =>
           \A i \in 1..Len(risk_factors.active_contributors) :
               LET c == risk_factors.active_contributors[i]
               IN  c.total_activity = FiveCounters(c.activity_breakdown)

C3_Witness ==
    /\ pc = "done"
    /\ \E i \in 1..Len(risk_factors.active_contributors) :
         LET c == risk_factors.active_contributors[i]
         IN  /\ c.activity_breakdown.commits > 0
             /\ c.activity_breakdown.prs_created > 0
             /\ c.activity_breakdown.comments_made > 0
             /\ c.total_activity >= 10

\* C4 (as claimed): total_activity equals the sum of the five counters after
\* every single mutation of an entry, at every point of the aggregation.
C4_TotalInSyncAfterEveryMutation ==
    \A e \in Ledger : e.total_activity = FiveCounters(e)

\* C4 (amended): while records are being folded total_activity keeps its
\* creation value 0 whatever the counters are; it equals the sum of the five
\* counters from the recomputation that follows the folds onwards.
C4_TotalSyncedOnlyAfterFold ==
    /\ pc \in Folding => \A e \in Ledger : e.total_activity = 0
    /\ pc \in Folded  => \A e \in Ledger : e.total_activity = FiveCounters(e)

C4_Witness ==
    /\ pc = "comments"
    /\ \E e \in Ledger : FiveCounters(e) >= 2 /\ e.total_activity = 0

\* C5: in the bundle of every completed analysis, one with zero contributors
\* included, the declared total_activity_events is the sum of total_activity
\* over the contributors listed in active_contributors.
C5_DeclaredTotalIsSum ==
    pc = "done" =>
        /\ "total_activity_events" \in DOMAIN risk_factors
        /\ risk_factors.total_activity_events =
               SumSeq([i \in 1..Len(risk_factors.active_contributors) |->
                          risk_factors.active_contributors[i].total_activity])

\* C6: for every window 1..365 and every whole number of elapsed days d in
\* 0..window-1, get_quarter returns an index in 0..3 without failing, returns 3
\* for d = 0, and never returns a larger index for a larger d.
C6_QuarterInRangeAndMonotone ==
    pc = "get_quarter" =>
        /\ \A i \in 1..Len(ret) : ret[i].kind = "quarter" /\ ret[i].q \in 0..3
        /\ (Len(ret) = 1 /\ args.days_ago = 1) => ret[1].q = 3
        /\ Len(ret) = 2 => ret[2].q <= ret[1].q

\* C7: for a non-empty ledger contributor_concentration_risk is 0.0 when the
\* top contributor's share of total activity is at most 30%, 1.0 when it is at
\* least 70% and (share - 30) / 40 in between, so it lies in [0,1]; for an empty
\* ledger it is exactly 1.0.
C7_RiskPiecewiseLinear ==
    pc \in Reported =>
        LET risk == risk_factors.contributor_concentration_risk
            top  == CHOOSE t \in { e.total_activity : e \in Ledger } :
                        \A e \in Ledger : e.total_activity <= t
            all  == SumSeq([i \in 1..Len(active_contributors) |->
                               active_contributors[i].total_activity])
        IN  /\ risk.den > 0 /\ 0 <= risk.num /\ risk.num <= risk.den
            /\ IF active_contributors = <<>> THEN risk.num = risk.den
               ELSE /\ 100 * top <= 30 * all => risk.num = 0
                    /\ 100 * top >= 70 * all => risk.num = risk.den
                    /\ (30 * all < 100 * top /\ 100 * top < 70 * all) =>
                           risk.num * (40 * all) = (100 * top - 30 * all) * risk.den

C7_Witness ==
    /\ pc = "done"
    /\ Len(active_contributors) = 3
    /\ 0 < risk_factors.contributor_concentration_risk.num
    /\ risk_factors.contributor_concentration_risk.num <
           risk_factors.contributor_concentration_risk.den

\* C8: with recent = q[2]+q[3] and older = q[0]+q[1] of an entry, the trend is
\* insufficient_data iff total_activity < 10; otherwise increasing if older = 0
\* and recent > 0, decreasing if recent = 0 and older > 0, stable if both are
\* 0, and else increasing if recent/older > 1.5, decreasing if recent/older <
\* 0.67, stable otherwise.
C8_TrendLabel ==
    (pc = "trend" /\ ret # <<>>) =>
        LET e      == ret[1]
            recent == e.quarterly_activity[3] + e.quarterly_activity[4]
            older  == e.quarterly_activity[1] + e.quarterly_activity[2]
            label  == e.activity_trend
        IN  /\ (label = "insufficient_data") <=> (e.total_activity < 10)
            /\ e.total_activity >= 10 =>
                 /\ (older = 0 /\ recent > 0) => label = "increasing"
                 /\ (recent = 0 /\ older > 0) => label = "decreasing"
                 /\ (recent = 0 /\ older = 0) => label = "stable"
                 /\ (recent > 0 /\ older > 0) =>
                      /\ 10 * recent > 15 * older => label = "increasing"
                      /\ 100 * recent < 67 * older => label = "decreasing"
                      /\ (10 * recent <= 15 * older /\ 100 * recent >= 67 * older)
                             => label = "stable"

C8_Witness ==
    /\ pc = "trend"
    /\ ret # <<>>
    /\ ret[1].total_activity >= 10
    /\ ret[1].quarterly_activity = <<2, 1, 1, 1>>
    /\ ret[1].activity_trend = "decreasing"

\* the record a step of the issue loop finishes: the one whose comments are
\* distributed, or the one the loop has just skipped
C9_Finishes ==
    \/ pc = "comments"
    \/ pc = "issues" /\ Len(recent_issues') > Len(recent_issues) /\ cur'.skipped

C9_Record == IF pc = "comments" THEN cur ELSE cur'

C9_Humans == { p \in C9_Record.participants : ~is_bot_account(p, <<>>, <<>>) }

C9_Credit(p) ==
    active_contributors'[IndexOf(active_contributors', p)].comments_made -
    active_contributors[IndexOf(active_contributors, p)].comments_made

\* C9: for every issue/PR record handed to the aggregator that has a comment
\* count of at least 1 and at least one non-bot participant, every non-bot
\* participant of the record (here: every one that has a ledger entry, the only
\* ones step 4 credits) is credited max(1, floor(comment count / number of
\* non-bot participants)) comments, which is at least 1.
C9_KnownParticipantsCredited ==
    [][(C9_Finishes /\ C9_Record.comments >= 1 /\ C9_Humans # {}) =>
          \A p \in C9_Humans \cap Keys(active_contributors) :
              /\ p \in Keys(active_contributors')
              /\ C9_Credit(p) >= 1
              /\ C9_Credit(p) =
                     Max(1, C9_Record.comments \div Cardinality(C9_Humans))]_vars

\* C10: when concentration_risk > 0.5 and there are at most 3 contributors, the
\* abandonment-risk message is emitted if the top contributor's email category
\* is anything other than company and the trend is decreasing, the
\* capacity-risk message if it is anything other than company and the trend is
\* stable or increasing; a company category suppresses both.
C10_NonCompanyTopContributorFlagged ==
    (/\ pc = "done"
     /\ active_contributors # <<>>
     /\ RatGT(risk_factors.contributor_concentration_risk, 1, 2)
     /\ risk_factors.total_active_contributors <= 3) =>
        LET top    == risk_factors.active_contributors[1]
            issued == { recommendations[i] : i \in 1..Len(recommendations) }
        IN  /\ (top.email_type # "company" /\ top.activity_trend = "decreasing")
                   => ABANDONMENT_RISK \in issued
            /\ (top.email_type # "company" /\
                top.activity_trend \in {"stable", "increasing"})
                   => CAPACITY_RISK \in issued
            /\ top.email_type = "company"
                   => (ABANDONMENT_RISK \notin issued /\ CAPACITY_RISK \notin issued)

(***************************************************************************)
(* The recommendation list.                                                *)
(***************************************************************************)
Issued == { recommendations[i] : i \in 1..Len(recommendations) }

\* the close times of the closed pull requests among the window's records
ClosedPRDays ==
    CloseTimes(recent_issues, args.closed, {TRUE})

\* a / b to one decimal: <<whole part, tenths digit>>
OneDecimal(a, b) ==
    LET q == (10 * a) \div b
        r == (10 * a) % b
        tenths == IF 2 * r > b THEN q + 1
                  ELSE IF 2 * r = b THEN q + (q % 2)
                  ELSE q
    IN  <<tenths \div 10, tenths % 10>>

\* C11: in every completed analysis, whenever the average close time of the
\* closed PRs of the window exceeds 5 days, the recommendation list contains
\* the security-risk message citing that average to one decimal, whatever the
\* number of ledger contributors, zero included.
C11_SlowPRsAlwaysFlagged ==
    (pc = "done" /\ ClosedPRDays # <<>>
                 /\ SumSeq(ClosedPRDays) > 5 * Len(ClosedPRDays)) =>
        \E m \in Issued :
            /\ m.text = SECURITY_RISK(0).text
            /\ m.days = OneDecimal(SumSeq(ClosedPRDays), Len(ClosedPRDays))

\* the step of section 4.7 a message belongs to
StepOf(m) ==
    CASE m.text \in {ABANDONMENT_RISK.text, CAPACITY_RISK.text} -> 1
      [] m.text = SECURITY_RISK(0).text -> 2
      [] m.text \in {RECRUIT.text, MONITOR.text} -> 3
      [] m.text \in {CRITICAL_FEW.text, LOW_COUNT.text} -> 4
      [] m.text = KNOWLEDGE_SHARING.text -> 5
      [] OTHER -> 6

\* the messages come in the order of their steps, one per step at most
InStepOrder ==
    \A i, j \in 1..Len(recommendations) :
        i < j => StepOf(recommendations[i]) < StepOf(recommendations[j])

\* the message each step of section 4.7 owes for the bundle, <<>> if none
OwedBy(step) ==
    LET risk == risk_factors.contributor_concentration_risk
        n    == risk_factors.total_active_contributors
        list == risk_factors.active_contributors
        stats == GetKey(risk_factors, "repository_statistics", <<>>)
        avg  == GetKey(stats, "avg_pr_close_time_days", <<>>)
        dist == GetKey(risk_factors, "activity_distribution", <<>>)
        top3 == GetKey(dist, "top_3_contributors_percentage", Rat(0, 1))
    IN  CASE step = 1 ->
               IF RatGT(risk, 1, 2) /\ n <= 3 /\ list # <<>>
                  /\ list[1].email_type # "company"
               THEN IF list[1].activity_trend = "decreasing"
                    THEN <<ABANDONMENT_RISK.text>>
                    ELSE IF list[1].activity_trend \in {"stable", "increasing"}
                    THEN <<CAPACITY_RISK.text>>
                    ELSE <<>>
               ELSE <<>>
          [] step = 2 ->
               IF avg # <<>> /\ avg[1] > 500
               THEN <<SECURITY_RISK(0).text>> ELSE <<>>
          [] step = 3 ->
               IF RatGT(risk, 7, 10) THEN <<RECRUIT.text>>
               ELSE IF RatGT(risk, 4, 10) THEN <<MONITOR.text>>
               ELSE <<>>
          [] step = 4 ->
               IF n < 3 THEN <<CRITICAL_FEW.text>>
               ELSE IF n < 5 THEN <<LOW_COUNT.text>>
               ELSE <<>>
          [] step = 5 ->
               IF top3.num > 80 * top3.den
               THEN <<KNOWLEDGE_SHARING.text>> ELSE <<>>

\* C12: for every risk-factor bundle the recommendations are emitted in the
\* fixed order abandonment/capacity, security-risk, recruit or monitor,
\* critical or low contributor count, knowledge-sharing; every applicable step
\* contributes its message, and no step contributes more than one (recruit and
\* monitor never both, critical and low never both, abandonment and capacity
\* never both).
C12_FixedOrderAllApplicable ==
    pc = "done" =>
        /\ InStepOrder
        /\ \A step \in 1..5 :
               OwedBy(step) # <<>> =>
                   \E m \in Issued : m.text = OwedBy(step)[1]

EqualTotals ==
    \A e, f \in Ledger : e.total_activity = f.total_activity

NoSlowPRs ==
    ClosedPRDays = <<>> \/ SumSeq(ClosedPRDays) <= 5 * Len(ClosedPRDays)

\* C13: the recommendation list is never empty; the "good contributor
\* diversity" message is in it exactly when no message of steps 1-5 is, and is
\* then its only element; five contributors with equal total activity and no
\* PR average above 5 days yield only that message.
C13_GoodDiversityIffNothingFired ==
    pc = "done" =>
        /\ recommendations # <<>>
        /\ (GOOD_DIVERSITY \in Issued) <=> (\A m \in Issued : StepOf(m) \notin 1..5)
        /\ (GOOD_DIVERSITY \in Issued) => recommendations = <<GOOD_DIVERSITY>>
        /\ (Len(active_contributors) = 5 /\ EqualTotals /\ NoSlowPRs) =>
               /\ risk_factors.contributor_concentration_risk.num = 0
               /\ recommendations = <<GOOD_DIVERSITY>>

C13_Witness ==
    /\ pc = "done"
    /\ Len(active_contributors) = 5
    /\ \A e \in Ledger : e.total_activity = 20
    /\ recent_issues = <<TRUE>>
    /\ recommendations = <<GOOD_DIVERSITY>>

\* C14: for a repository whose in-window records are the commits of exactly
\* one non-bot author (any name, any email but a company one, none included;
\* at least 10 commits, so that the author has a trend) and no issue or PR, the
\* analysis yields concentration_risk = 1.0, risk level High, a capacity or
\* abandonment message and the "Very few active contributors" message.
C14_SoloAuthorFlagged ==
    (/\ pc = "done"
     /\ recent_commits >= 10
     /\ classify_email_domain(Get(args.email, <<>>)) # "company") =>
        /\ Len(active_contributors) = 1
        /\ overall_risk(risk_factors).num = overall_risk(risk_factors).den
        /\ risk_level(overall_risk(risk_factors)) = "High"
        /\ ABANDONMENT_RISK \in Issued \/ CAPACITY_RISK \in Issued
        /\ CRITICAL_FEW \in Issued


BatchOutcome(i) ==
    analyze_single_repository(args.batch[i].repo_url, args.batch[i].site,
                              args.github_token, analysis_window_days)

\* the batch without its raising repositories
BatchSurvivors == SelectSeq(args.batch,
    LAMBDA b : analyze_single_repository(b.repo_url, b.site, args.github_token,
                                         analysis_window_days).kind = "return")

\* C15: when analyze_repositories returns, there is exactly one report per
\* input identifier, in input order; a repository whose analysis raised has
\* the report with score 1.0, an "error" risk factor and the single
\* recommendation "Unable to analyze repository"; and the remaining reports,
\* in order, are the reports each surviving repository gets on its own
C15_OneReportPerRepository ==
    pc = "batch_returned" =>
        /\ Len(ret.analyses) = Len(args.batch)
        /\ \A i \in 1..Len(ret.analyses) :
               ret.analyses[i].repository = args.batch[i].repo_url
        /\ \A i \in 1..Len(ret.analyses) :
               BatchOutcome(i).kind = "raise" =>
                   /\ ret.analyses[i].overall_risk_score = Rat(1, 1)
                   /\ DOMAIN ret.analyses[i].risk_factors = {"error"}
                   /\ ret.analyses[i].recommendations = <<s_unable>>
        /\ SelectSeq(ret.analyses, LAMBDA a : "error" \notin DOMAIN a.risk_factors)
               = [j \in 1..Len(BatchSurvivors) |->
                      analyze_repositories_step(
                          <<>>, BatchSurvivors[j].repo_url,
                          analyze_single_repository(
                              BatchSurvivors[j].repo_url, BatchSurvivors[j].site,
                              args.github_token, analysis_window_days))[1]]

\* a batch of three whose middle repository raised and whose other two
\* were analysed normally
C15_Witness ==
    /\ pc = "batch_returned"
    /\ Len(ret.analyses) = 3
    /\ BatchOutcome(1).kind = "return"
    /\ BatchOutcome(2).kind = "raise"
    /\ BatchOutcome(3).kind = "return"
    /\ ret.analyses[3].risk_factors.total_active_contributors > 0


Parsed(i) == parse_github_url(args.batch[i].repo_url).kind = "ok"

IsErrorReport(a) ==
    /\ a.overall_risk_score = Rat(1, 1)
    /\ DOMAIN a.risk_factors = {"error"}
    /\ a.recommendations = <<s_unable>>

\* the report of repository i of the batch had the data source answered site
ReportFor(i, site) ==
    analyze_repositories_step(
        <<>>, args.batch[i].repo_url,
        analyze_single_repository(args.batch[i].repo_url, site,
                                  args.github_token, analysis_window_days))[1]

\* C16 as stated: whenever the repository-metadata fetch fails, by an HTTP
\* error status or by a transport error, the repository's report in the
\* batch is the risk-1.0 error report
C16_AnyPrimaryFailureFails ==
    pc = "batch_returned" =>
        \A i \in 1..Len(args.batch) :
            (Parsed(i) /\ args.batch[i].site.repository # "ok")
                => IsErrorReport(ret.analyses[i])

\* C16: a transport error of the repository-metadata fetch fails the
\* analysis (risk-1.0 error report in a batch); an HTTP error status is
\* answered with stub metadata and the report is the one the repository
\* gets when the metadata fetch succeeds
C16_OnlyTransportErrorFails ==
    pc = "batch_returned" =>
        \A i \in 1..Len(args.batch) :
            Parsed(i) =>
                /\ args.batch[i].site.repository = "transport_error"
                       => IsErrorReport(ret.analyses[i])
                /\ args.batch[i].site.repository = "http_error"
                       => ret.analyses[i] =
                              ReportFor(i, [args.batch[i].site
                                                EXCEPT !.repository = "ok"])

\* a batch with a repository whose metadata fetch met a transport error and
\* one whose metadata fetch met an HTTP error status and was still analysed
C16_Witness ==
    /\ pc = "batch_returned"
    /\ \E i, j \in 1..Len(args.batch) :
           /\ Parsed(i) /\ Parsed(j)
           /\ args.batch[i].site.repository = "transport_error"
           /\ IsErrorReport(ret.analyses[i])
           /\ args.batch[j].site.repository = "http_error"
           /\ "error" \notin DOMAIN ret.analyses[j].risk_factors
           /\ ret.analyses[j].risk_factors.total_active_contributors > 0


SubFetches == {"commits", "contributors", "issues"}

\* the data source answering [] where it answered an HTTP error status
EmptiedSite(site) ==
    [site EXCEPT
        !.commits = "ok", !.contributors = "ok", !.issues = "ok",
        !.commits_data = IF site.commits = "ok" THEN @ ELSE <<>>,
        !.issues_data = IF site.issues = "ok" THEN @ ELSE <<>>]

ToolResponse == ret.response[1]

\* the call reached asyncio.wait_for and has been answered
AnalysisAnswered ==
    /\ pc = "tool_responded"
    /\ ret.outcome # "none"

TimeLimit ==
    IF include_sentiment THEN TimeoutWithSentiment ELSE TimeoutWithoutSentiment

\* C18: a tool call whose analysis needs more than its time limit (45 s
\* without sentiment, 120 s with) is answered "Analysis timed out" and with
\* no analysis data, whatever ledger the cancelled analysis had built; a
\* call whose analysis returned or raised within the limit is never
\* answered that way, so the timeout differs from a fetch or analysis error
C18_TimeoutIsDistinctAndEmpty ==
    AnalysisAnswered =>
        /\ ret.outcome = "timeout" <=> ret.elapsed + ret.duration > TimeLimit
        /\ ret.outcome = "timeout" <=> ToolResponse.text = "Analysis timed out"
        /\ ret.outcome = "timeout" => ToolResponse.data = <<>>
        /\ ret.outcome = "raised" =>
               /\ ToolResponse.text = "Error analyzing repository"
               /\ ToolResponse.data = <<>>
        /\ ret.outcome = "returned" => ToolResponse.data # <<>>

\* the limit passed while a per-contributor request was in flight, after the
\* ledger had been folded
C18_Witness ==
    /\ AnalysisAnswered
    /\ ret.outcome = "timeout"
    /\ ret.stage > Len(FetchStages)
    /\ active_contributors # <<>>
    /\ ret.elapsed <= TimeLimit
    /\ ToolResponse.data = <<>>


C20_NoSentimentFetchWithoutFlag ==
    (args.name = s_tool /\ ~include_sentiment)
        => \A i \in 1..Len(ret.fetches) : ret.fetches[i].fetch # "comments"


\* C21: once the sentiment loop has ended, every ledger entry with
\* total_activity < 10 carries the insufficient_activity placeholder with
\* zero polarity, zero subjectivity and zero messages; every entry with
\* total_activity >= 10 carries a summary of at most 30 messages whose label
\* is no_recent_comments_found exactly when no message was found for it
C21_SentimentByThreshold ==
    pc = "sentiment_done" =>
        \A i \in 1..Len(active_contributors) :
            LET e == active_contributors[i]
                s == e.sentiment_analysis
            IN  /\ e.total_activity < 10 =>
                       s = [average_polarity |-> 0, average_subjectivity |-> 0,
                            comments_analyzed |-> 0,
                            sentiment_label |-> "insufficient_activity"]
                /\ e.total_activity >= 10 =>
                       /\ s.comments_analyzed <= 30
                       /\ s.comments_analyzed <= Len(ret.found[i])
                       /\ s.sentiment_label # "insufficient_activity"
                       /\ s.sentiment_label = "no_recent_comments_found"
                              <=> ret.found[i] = <<>>
                       /\ ret.found[i] # <<>> =>
                              s.sentiment_label \in {"positive", "negative", "neutral"}

\* a ledger with one entry below the threshold and one above it for which
\* more than 30 messages were found, and the loop has ended
C21_Witness ==
    /\ pc = "sentiment_done"
    /\ \E i, j \in 1..Len(active_contributors) :
           /\ active_contributors[i].total_activity = 9
           /\ active_contributors[i].sentiment_analysis.sentiment_label
                  = "insufficient_activity"
           /\ active_contributors[j].total_activity >= 10
           /\ Len(ret.found[j]) > 30
           /\ active_contributors[j].sentiment_analysis.comments_analyzed = 30


\* the reports a caller has received from either entry point
ReturnedReports ==
    IF pc = "tool_responded" /\ ret.outcome = "returned"
    THEN <<ToolResponse.data[1]>>
    ELSE IF pc = "legacy_responded" /\ ToolResponse.data # <<>>
    THEN ToolResponse.data[1].analyses
    ELSE <<>>

\* the score of a returned report, in thousandths
Thousandths(report) ==
    IF "risk_level" \in DOMAIN report /\ "key_risk_factors" \in DOMAIN report
    THEN report.overall_risk_score
    ELSE RoundDiv(1000 * report.overall_risk_score.num,
                  report.overall_risk_score.den)

\* C22: every report returned to a caller by either entry point carries a
\* risk level that is High iff the score is > 0.7, Medium iff
\* 0.3 < score <= 0.7 and Low otherwise, and in the batch summary the high,
\* medium and low counts sum to the number of reports
C22_EveryReportHasRiskLevel ==
    /\ \A i \in 1..Len(ReturnedReports) :
           LET report == ReturnedReports[i]
           IN  /\ "risk_level" \in DOMAIN report
               /\ report.risk_level =
                      (IF Thousandths(report) > 700 THEN "High"
                       ELSE IF Thousandths(report) > 300 THEN "Medium"
                       ELSE "Low")
    /\ (pc = "legacy_responded" /\ ToolResponse.data # <<>>) =>
           LET summary == ToolResponse.data[1].summary
           IN  /\ summary.total_repositories = Len(ReturnedReports)
               /\ summary.high_risk_count + summary.medium_risk_count
                      + summary.low_risk_count = Len(ReturnedReports)
               /\ \A level \in {"High", "Medium", "Low"} :
                      Cardinality({ i \in 1..Len(ReturnedReports) :
                                      ReturnedReports[i].risk_level = level })
                          = (CASE level = "High" -> summary.high_risk_count
                               [] level = "Medium" -> summary.medium_risk_count
                               [] OTHER -> summary.low_risk_count)


\* C23: the repository statistics of every report give
\* commit_frequency_per_day = (number of window commits) / (window length in
\* days) rounded to 2 decimals (in hundredths), with or without issue/PR
\* records in the window
C23_CommitFrequency ==
    (pc \in Reported /\ "repository_statistics" \in DOMAIN risk_factors) =>
        /\ risk_factors.repository_statistics.total_commits = recent_commits
        /\ risk_factors.repository_statistics.commit_frequency_per_day
               = Round2(recent_commits, analysis_window_days)


\* the text after the last "@" of the classified email, lower-cased
C24_Domain ==
    LET email == args.email
        n == CHOOSE k \in 0..Len(email) :
                 /\ \A j \in (Len(email) - k + 1)..Len(email) : email[j] # "@"
                 /\ k < Len(email) /\ email[Len(email) - k] = "@"
    IN  LowerStr(SubSeq(email, Len(email) - n + 1, Len(email)))

C24_Academic == \E tld \in academic_tlds : EndsWith(C24_Domain, tld)

\* C24: classify_email returns a category for every email (it never
\* raises): the no-email sentinel when the string is empty or has no "@";
\* otherwise custom if the lower-cased domain after the last "@" is in the
\* caller-supplied set, else company if it is in the company list, else
\* academic if it ends with an academic suffix, else personal
C24_ClassificationPrecedence ==
    ret # <<>> =>
        IF \A i \in 1..Len(args.email) : args.email[i] # "@"
        THEN ret[1] = "no email available"
        ELSE /\ ret[1] = "custom" <=> C24_Domain \in args.custom_domains
             /\ ret[1] = "company" <=>
                    /\ C24_Domain \notin args.custom_domains
                    /\ C24_Domain \in company_domains
             /\ ret[1] = "academic" <=>
                    /\ C24_Domain \notin args.custom_domains
                    /\ C24_Domain \notin company_domains
                    /\ C24_Academic
             /\ ret[1] = "personal" <=>
                    /\ C24_Domain \notin args.custom_domains
                    /\ C24_Domain \notin company_domains
                    /\ ~C24_Academic

\* an email written with capitals whose domain is both a custom and a
\* company domain was classified custom
C24_Witness ==
    /\ ret = <<"custom">>
    /\ C24_Domain \in args.custom_domains
    /\ C24_Domain \in company_domains
    /\ args.email # LowerStr(args.email)


\* the PR record whose review loop the aggregator has just passed over
\* because its author is unknown or a bot
C25_SkippedPR ==
    /\ pc = "issues"
    /\ Len(recent_issues') > Len(recent_issues)
    /\ cur'.skipped
    /\ cur'.pull_request

C25_Reviewer == Get(Head(cur.reviews), s_unknown)

C25_Before(login) ==
    IF login \in Keys(active_contributors)
    THEN active_contributors[IndexOf(active_contributors, login)]
    ELSE NewContributor(login, "N/A")

\* the review loop reads the head of cur.reviews
C25_ReviewRead ==
    /\ pc = "reviews"
    /\ cur.reviews # <<>>
    /\ cur'.reviews = Tail(cur.reviews)
    /\ cur.pull_request
    /\ Countable(C25_Reviewer)

C25_Counted ==
    IF C25_Reviewer = cur.author_login
    THEN active_contributors' = active_contributors
    ELSE /\ C25_Reviewer \in Keys(active_contributors')
         /\ active_contributors'[IndexOf(active_contributors', C25_Reviewer)] =
                Bucket(Increment(C25_Before(C25_Reviewer), "reviews_given", 1),
                       cur.quarter)
         /\ \A l \in Keys(active_contributors) \ {C25_Reviewer} :
                active_contributors'[IndexOf(active_contributors', l)] =
                    active_contributors[IndexOf(active_contributors, l)]

\* C25: for each review nested in a PR record whose reviewer is a known,
\* non-bot login: a self-review counts nothing; any other review grows the
\* reviewer's reviews_given by exactly 1, in the quarterly slot of the PR's
\* creation time.  No PR record is left with such a review uncounted.
C25_EveryReviewCounted ==
    [][/\ C25_ReviewRead => C25_Counted
       /\ C25_SkippedPR =>
              \A i \in 1..Len(cur'.reviews) :
                  ~Countable(Get(cur'.reviews[i], s_unknown))]_vars

\* reviews that reach the review loop are counted as stated
C25_ReadReviewsCounted == [][C25_ReviewRead => C25_Counted]_vars


\* comments credited to ledger entries by the distribution step being taken
C30_Credited ==
    SumField(active_contributors', "comments_made") -
    SumField(active_contributors, "comments_made")

C30_Humans == HumanParticipants(cur.participants)

\* C30 (as stated): for every issue/PR record, the comments credited to ledger
\* entries from that record sum to at most the record's comment count.
C30_CreditedAtMostCount ==
    [][pc = "comments" => C30_Credited <= cur.comments]_vars

\* C30 (amended): the comments credited from a record sum to at most the larger
\* of the record's comment count and its number of non-bot participants, and to
\* at most the comment count when there are at least as many comments as
\* non-bot participants.
C30_CreditedAtMostCountOrParticipants ==
    [][pc = "comments" =>
          /\ C30_Credited <= Max(cur.comments, Cardinality(C30_Humans))
          /\ cur.comments >= Cardinality(C30_Humans) =>
                 C30_Credited <= cur.comments]_vars

\* one record with a single comment has been distributed: two ledger entries
\* were credited the minimum share of 1 each
C30_Witness ==
    /\ pc = "issues"
    /\ Len(recent_issues) = 1
    /\ cur = NoRecord
    /\ SumField(active_contributors, "comments_made") = 2
    /\ \E i, j \in 1..Len(active_contributors) :
           /\ i # j
           /\ active_contributors[i].comments_made = 1
           /\ active_contributors[j].comments_made = 1


\* the input list with its records in the opposite order
C26_Reordered == [i \in 1..Len(args.issues) |->
                     args.issues[Len(args.issues) + 1 - i]]

C26_Other ==
    fold_records(FoldCommits(<<>>, args.commits, analysis_window_days),
                 C26_Reordered, analysis_window_days)

C26_Counters(ledger, login) ==
    LET e == ledger[IndexOf(ledger, login)]
    IN  <<e.commits, e.issues_created, e.prs_created, e.reviews_given,
          e.comments_made>>

\* the logins that steps 1-3 give a ledger entry, anywhere in the input
C26_Known ==
    Keys(FoldCommits(<<>>, args.commits, analysis_window_days)) \cup
    UNION { RecordLogins(args.issues[i]) : i \in 1..Len(args.issues) }

\* C26: comment distribution never creates a ledger entry, and credits a
\* record's share to every participant that steps 1-3 give a ledger entry
\* anywhere in the window; hence the final ledger counters are the same for
\* every ordering of the issue/PR records in the input list.
C26_OrderIndependent ==
    pc = "order_done" =>
        /\ Keys(active_contributors) \subseteq C26_Known
        /\ Keys(C26_Other) = Keys(active_contributors)
        /\ \A login \in Keys(active_contributors) :
               C26_Counters(C26_Other, login) =
                   C26_Counters(active_contributors, login)

\* what does not depend on the order: the set of entries and every counter
\* other than comments_made
C26_OrderIndependentButComments ==
    pc = "order_done" =>
        /\ Keys(active_contributors) \subseteq C26_Known
        /\ Keys(C26_Other) = Keys(active_contributors)
        /\ \A login \in Keys(active_contributors) :
               SubSeq(C26_Counters(C26_Other, login), 1, 4) =
                   SubSeq(C26_Counters(active_contributors, login), 1, 4)


\* what the call's analysis produces when it runs alone
C27_Alone(call) ==
    analyze_single_repository(url_short, args.calls[call].site,
                              args.github_token,
                              args.calls[call].analysis_days)

\* C27: two analyses running concurrently (interleaved at their fetch and
\* sentiment suspension points) with different repositories or different
\* look-back windows share no mutable state: each keeps its own ledger and
\* uses its own window for filtering, quarter bucketing, commit frequency and
\* sentiment cut-off, so each report equals the one of the analysis run alone.
C27_EachReportAsAlone ==
    \A call \in Calls :
        /\ pc[call] \notin {"called"} =>
               WindowOf(call) = args.calls[call].analysis_days
        /\ ret[call].cutoff \in {<<>>, <<args.calls[call].analysis_days>>}
        /\ pc[call] = "done" =>
               LET alone == C27_Alone(call)
               IN  IF alone.kind = "raise"
                   THEN ret[call].outcome =
                            <<[kind |-> "raise", error |-> alone.error]>>
                   ELSE ret[call].outcome =
                            <<[kind |-> "return", report |-> alone.report]>>

\* both calls have finished with different windows and different repositories;
\* the first awaited its sentiment requests while the second ran
C27_Witness ==
    /\ \A call \in Calls : pc[call] = "done" /\ ret[call].outcome[1].kind = "return"
    /\ args.calls[1].analysis_days # args.calls[2].analysis_days
    /\ args.calls[1].site # args.calls[2].site
    /\ ret[1].cutoff # <<>>
    /\ ret[1].outcome # ret[2].outcome


C28_RatLE(a, b) == a.num * b.den <= b.num * a.den

\* no entry disappears and none of its five counters shrinks
C28_CountersGrow ==
    \A i \in 1..Len(active_contributors) :
        LET e == active_contributors[i]
        IN  /\ e.login \in Keys(active_contributors')
            /\ \A field \in {"commits", "issues_created", "prs_created",
                             "reviews_given", "comments_made"} :
                   active_contributors'[IndexOf(active_contributors', e.login)][field]
                       >= e[field]

C28_Shares ==
    LET d == risk_factors.activity_distribution
    IN  /\ risk_factors.total_activity_events > 0
        /\ C28_RatLE(Rat(0, 1), d.top_1_contributor_percentage)
        /\ C28_RatLE(d.top_1_contributor_percentage,
                     d.top_3_contributors_percentage)
        /\ C28_RatLE(d.top_3_contributors_percentage,
                     d.top_5_contributors_percentage)
        /\ C28_RatLE(d.top_5_contributors_percentage, Rat(100, 1))

\* C28: every ledger entry is created together with at least one counted
\* activity and counters only grow, so after folding every entry has
\* total_activity >= 1; the sum of all totals is then positive whenever the
\* ledger is non-empty and the shares satisfy top-1 <= top-3 <= top-5 <= 100.
C28_EveryEntryCounts ==
    /\ [](pc # "failed" => \A e \in Ledger : FiveCounters(e) >= 1)
    /\ [][C28_CountersGrow]_vars
    /\ [](pc \in Folded => \A e \in Ledger : e.total_activity >= 1)
    /\ []((pc \in Reported /\ active_contributors # <<>>) => C28_Shares)

\* a report over two contributors, one of them with a single counted
\* activity, where the top contributor's share is below the top-3 share
C28_Witness ==
    /\ pc = "done"
    /\ Len(active_contributors) >= 2
    /\ \E e \in Ledger : e.total_activity = 1
    /\ ~C28_RatLE(risk_factors.activity_distribution.top_3_contributors_percentage,
                  risk_factors.activity_distribution.top_1_contributor_percentage)


C29_SlotSum(e) ==
    e.quarterly_activity[1] + e.quarterly_activity[2] +
    e.quarterly_activity[3] + e.quarterly_activity[4]

C29_FourCounters(e) ==
    e.commits + e.issues_created + e.prs_created + e.reviews_given

\* the commits and issue/PR records that the loops have taken so far and that
\* passed the window filter
C29_Commits ==
    { i \in 1..(ret.commit - 1) :
        InWindow(args.commits[i].age, analysis_window_days) }

C29_Records ==
    { i \in 1..(ret.next - 1) :
        InWindow(args.issues[i].age, analysis_window_days) }

\* the activities of login among them that are dated now or earlier: commits,
\* issues and PRs authored, reviews given on another author's PR
C29_DatedActivities(login) ==
    Cardinality({ i \in C29_Commits :
                    /\ args.commits[i].age >= 0
                    /\ ~CommitIsBot(args.commits[i])
                    /\ CommitLogin(args.commits[i]) = login })
    + Cardinality({ i \in C29_Records :
                      /\ args.issues[i].age >= 0
                      /\ Get(args.issues[i].user, s_unknown) = login })
    + Cardinality({ i \in C29_Records :
                      /\ args.issues[i].age >= 0
                      /\ Countable(Get(args.issues[i].user, s_unknown))
                      /\ Get(args.issues[i].user, s_unknown) # login
                      /\ \E k \in 1..Len(args.issues[i].reviews) :
                             Get(args.issues[i].reviews[k], s_unknown) = login })

C29_NoneAhead ==
    /\ \A i \in C29_Commits : args.commits[i].age >= 0
    /\ \A i \in C29_Records : args.issues[i].age >= 0

C29_Holds ==
    \A e \in Ledger :
        /\ C29_SlotSum(e) <= C29_FourCounters(e)
        /\ C29_NoneAhead => C29_SlotSum(e) = C29_FourCounters(e)
        /\ C29_SlotSum(e) >= C29_DatedActivities(e.login)

\* C29: for every ledger entry the four quarterly slots sum to at most
\* commits + issues_created + prs_created + reviews_given, with equality
\* whenever no folded record is dated in the future; every record that passed
\* the window filter with a non-negative age is assigned a bucket.
C29_SlotsAccountForRecords == C29_Holds

\* the same for windows of at least four days
C29_SlotsAccountForRecordsFromFourDays ==
    analysis_window_days >= 4 => C29_Holds

=============================================================================
